---- MODULE Spec2Model ----
(***************************************************************************)
(* Server-side engine of the Chaos game (src/net/server/game_logic.rs,     *)
(* src/data/wizard.rs, src/data/arena.rs, src/net/server.rs).              *)
(*                                                                         *)
(* Spec      : the turn/phase state machine GameLogic::game_loop with its  *)
(*             waits (select_spells, chosen_tile), driven by the inbound   *)
(*             channel.  The arena is represented by what the control flow *)
(*             reads of it: which wizards stand on the board and the       *)
(*             mover's moves_left.  The board holds wizards only (hands    *)
(*             hold Disbelieve, Magic Bolt and Lightning, which create     *)
(*             nothing).  Distances, adjacency and line of sight are       *)
(*             functions of coordinates; every query of them is drawn      *)
(*             nondeterministically, as is every dice roll.                *)
(*             Every send to the outbound channel is taken to succeed.     *)
(* SpecConn  : one server-side connection task (connection_loop) and the   *)
(*             notifications it puts on the inbound channel, whose         *)
(*             receiver (GameLogic) is alive, so that tx.send returns Ok.  *)
(* SpecQuit  : Spec with the quit signal sent as a step of its own, before *)
(*             a select! takes its branch.                                 *)
(* SpecInProtocol : Spec fed only by roster players that keep to the       *)
(*             protocol (indexes inside the hand and the offered list).    *)
(* SpecLobby : GameLogic::lobby_loop over LobbyWizards.                     *)
(* SpecBoard : Arena::kill_wizard_and_creations on tiles with all four     *)
(*             occupants.                                                  *)
(* SpecMove  : Arena::move_creation on such tiles.                         *)
(* SpecAttack : GameLogic::creation_attack, wizard_attack and the ranged    *)
(*             attacks of a piece on a neighbour.                          *)
(* SpecDisbelieve : the Disbelieve arm of do_spell on the chosen tile.     *)
(* SpecSpell : do_spell for the spell kinds that take a target, and the    *)
(*             ranged-combat follow-up, on the tiles within range.         *)
(* SpecSpellFair : SpecSpell with the resolution step taken whenever it   *)
(*             can be (do_spell awaits nothing before its first wait).     *)
(* SpecServer : server_loop: accepting connections and forwarding the      *)
(*             outbound channel to the broadcast channel.                  *)
(* SpecFire  : spells, moves, attacks and the spread of fire and blob on   *)
(*             the tiles, from a board on which nothing burns.             *)
(* SpecHand  : the hands and the number_of_spells counters of two players  *)
(*             through select_spells and the environment tick.             *)
(* SpecRange : the range test of the Disbelieve targeting set for a caster *)
(*             and a creation anywhere on the board.                       *)
(* SpecGet, SpecCastChance, SpecSight : Arena::get, Spell::cast_chance and *)
(*             Arena::line_of_sight, each called once on arguments drawn   *)
(*             by the initial state.                                       *)
(***************************************************************************)
EXTENDS Naturals, Integers, Sequences, FiniteSets, TLC

\* Number of connection ids the accept loop has handed out (server_loop: id += 1).
MaxConn == 3

\* Largest roster the lobby lets start a match in this model (the lobby caps at 8).
MaxPlayers == 3

ConnIds == 0 .. (MaxConn - 1)

\* LobbyWizards::is_ready: a match starts with at least two players.
MinPlayers == 2

\* Spells in a hand at the start of the match (create_spells deals 11 to 13).
NumberOfSpells == 2

\* SpellKind: the kinds of the spell book that the hands of this model are drawn from.
Book == <<"MagicBolt", "Lightning">>

\* create_spells: index 0 is Disbelieve, the rest is drawn from the spell book.  The
\* draw d deals the book in turn, starting at its entry d.
create_spells(d) ==
    [j \in 1 .. NumberOfSpells |->
        IF j = 1 THEN "Disbelieve" ELSE Book[((d + j) % Len(Book)) + 1]]

Draws == 0 .. (Len(Book) - 1)

None == "None"

VARIABLES
    wizards,        \* ServerWizards.wizards: Vec<Wizard>, sorted by id
    arena,          \* Arena: the ids whose wizard stands on a tile
    moves_left,     \* GameWizard.moves_left of the mover's wizard (of the others it is
                    \* not read before their own reset_moves)
    conn,           \* per connection id: "open" | "closed" (its Disconnected was consumed)
    pc,             \* where GameLogic stands
    left_to_choose, \* select_spells: HashSet<u32>
    spells,         \* select_spells: Vec<(u32, Spell, bool)>; then game_loop's iteration
    acting,         \* Option<u32>: the caster / mover, the id chosen_tile waits for
    prompt,         \* the prompt that is outstanding ("none" when no chosen_tile wait)
    tiles,          \* chosen_tile: the candidate list (what stands on each candidate)
    casting,        \* do_spell: the kind of the spell being resolved
    order,          \* game_loop: the ids of all_active_ids() still to take their turn
    turn,           \* game_loop: rounds completed (one TurnEnd each)
    result,         \* the Vec<Player> game_loop returned
    quit,           \* quit_tx.send(()) has happened and no select! has taken the branch yet
    conn_id,        \* connection_loop: the id server_loop gave the connection
    task,           \* connection_loop: "spawned" | "running" | "returned_ok" | "returned_err"
    cause,          \* connection_loop: why the task stopped
    inbox,          \* connection_loop: what the task put on the inbound channel
    lobby,          \* lobby_loop: LobbyWizards.players, as the set of its LobbyWizard values
    sent,           \* lobby_loop: what the handler of the last message sent out
    board,          \* Arena.tiles with all four occupants of each Tile
    killed,         \* Option<u32>: the id of the last kill_wizard_and_creations on board
    args,           \* the arguments of the last call of a function checked on its own
    ret,            \* what that call returned ("None" before the first call)
    alignment,      \* Arena.alignment: i8, the world alignment
    local           \* do_spell: its locals and what it has sent to the caster so far

vars == <<wizards, arena, moves_left, conn, pc, left_to_choose, spells, acting, prompt, tiles,
          casting, order, turn, result, quit, conn_id, task, cause, inbox, lobby, sent,
          board, killed, args, ret, alignment, local>>

gameVars == <<wizards, arena, moves_left, conn, pc, left_to_choose, spells, acting, prompt, tiles,
              casting, order, turn, result>>

connVars == <<conn_id, task, cause, inbox>>

lobbyVars == <<lobby, sent>>

boardVars == <<board, killed>>

castVars == <<alignment, local>>

callVars == <<args, ret, castVars>>

\* What the handlers of GameLogic leave alone, and what connection_loop leaves alone.
offStage == <<connVars, lobbyVars, boardVars, callVars>>
outsideGame == <<quit, offStage>>
outsideConn == <<gameVars, quit, lobbyVars, boardVars, callVars>>

-----------------------------------------------------------------------------
(* Sequences *)

\* Option<T>: {} is None, {x} is Some(x).
Some(x) == {x}

The(o) == CHOOSE x \in o : TRUE

RECURSIVE SetToSeq(_)
SetToSeq(S) ==
    IF S = {} THEN <<>>
    ELSE LET m == CHOOSE x \in S : \A y \in S : x <= y
         IN <<m>> \o SetToSeq(S \ {m})

Range(s) == {s[i] : i \in 1 .. Len(s)}

\* Vec::remove(k), k zero-based and in range.
RemoveAt(s, k) == [i \in 1 .. (Len(s) - 1) |-> IF i <= k THEN s[i] ELSE s[i + 1]]

-----------------------------------------------------------------------------
(* ServerWizards (src/data/wizard.rs) *)

Ids(w) == {w[i].id : i \in 1 .. Len(w)}

\* iter().find(|w| w.id == id): the index of the first wizard with that id.
Find(w, id) == CHOOSE i \in 1 .. Len(w) : w[i].id = id /\ \A j \in 1 .. (i - 1) : w[j].id # id

get(w, id) == w[Find(w, id)]

has_disconnected(w, id) == get(w, id).disconnected

is_alive(w, id) == get(w, id).alive

IsActive(wz) == wz.alive /\ ~wz.disconnected

\* The active ids collected from the back of the roster.
all_active_ids_reversed(w) ==
    LET act == SelectSeq(w, IsActive)
    IN [i \in 1 .. Len(act) |-> act[Len(act) + 1 - i].id]

all_active_ids(w) ==
    LET act == SelectSeq(w, IsActive)
    IN [i \in 1 .. Len(act) |-> act[i].id]

RECURSIVE CountActive(_)
CountActive(w) ==
    IF w = <<>> THEN 0
    ELSE (IF Head(w).alive /\ ~Head(w).disconnected THEN 1 ELSE 0) + CountActive(Tail(w))

\* The count compared with <= instead of ==.
check_at_most_one(w) == CountActive(w) <= 1

check_for_winning_condition(w) == CountActive(w) = 1

RECURSIVE winners(_)
winners(w) ==
    IF w = <<>> THEN <<>>
    ELSE (IF Head(w).alive /\ ~Head(w).disconnected THEN <<Head(w).id>> ELSE <<>>)
         \o winners(Tail(w))

SetDisconnected(w, id) == [w EXCEPT ![Find(w, id)].disconnected = TRUE]

SetDead(w, id) == [w EXCEPT ![Find(w, id)].alive = FALSE]

\* From<LobbyWizards> for ServerWizards: one Wizard per lobby player, sorted by id.
NewWizards(roster, d) ==
    LET s == SetToSeq(roster)
    IN [i \in 1 .. Len(s) |->
           [id |-> s[i], alive |-> TRUE, disconnected |-> FALSE,
            spells |-> create_spells(d + i)]]

-----------------------------------------------------------------------------
(* Arena (src/data/arena.rs), as far as the wizards are concerned *)

kill_wizard_and_creations(a, id) == a \ {id}

\* get_movement() of a wizard without wings.
WizardMovement == 1

\* reset_moves(id), for the wizard of id.
reset_moves(a, id) == IF id \in a THEN WizardMovement ELSE 0

\* The tile of the wizard of id, whether or not it has moves left.
tiles_with_any_moves(a, m, id) == IF id \in a THEN <<id>> ELSE <<>>

\* tiles_with_moves_left(id): the tile of the wizard of id, when it has moves left.
tiles_with_moves_left(a, m, id) == IF id \in a /\ m > 0 THEN <<id>> ELSE <<>>

\* The wizards of other players standing on the board: what every
\* "opposition in range" list is drawn from.
Opposition(a, id) == a \ {id}

-----------------------------------------------------------------------------
(* game_loop (src/net/server/game_logic.rs) *)

\* The round count one short.
number_of_turns_short(w) == Len(w) * 2 + 14

number_of_turns(w) == Len(w) * 2 + 15

\* lobby_loop returned with the first n connections joined and ready; the connections
\* accepted after them are not in the roster.
Rosters == {0 .. (n - 1) : n \in MinPlayers .. MaxPlayers}

InitGame ==
    /\ \E r \in Rosters : \E d \in Draws :
          /\ wizards = NewWizards(r, d)
          /\ arena = r
          /\ left_to_choose = r
    /\ conn = [i \in ConnIds |-> "open"]
    /\ moves_left = 0
    /\ pc = "select_spells"
    /\ spells = <<>>
    /\ acting = {}
    /\ prompt = "none"
    /\ tiles = <<>>
    /\ casting = None
    /\ order = <<>>
    /\ turn = 0
    /\ result = <<>>
    /\ quit = FALSE

IdleConn ==
    /\ conn_id = 0
    /\ task = "none"
    /\ cause = "none"
    /\ inbox = <<>>

\* No lobby: lobby_loop has returned its LobbyWizards.
IdleLobby ==
    /\ lobby = {}
    /\ sent = "none"

IdleBoard ==
    /\ board = <<>>
    /\ killed = {}

\* No function is being checked on its own.
IdleCall ==
    /\ args = <<>>
    /\ ret = None
    /\ alignment = 0
    /\ local = <<>>

Init == InitGame /\ IdleConn /\ IdleLobby /\ IdleBoard /\ IdleCall

-----------------------------------------------------------------------------
(* Pieces of control flow shared by the handlers *)

TileList(S) ==
    LET s == SetToSeq(S)
    IN [i \in 1 .. Len(s) |-> Some(s[i])]

\* A tile without spawn, creation and wizard.
EmptyTile == {}

\* sort_by(|a, b| a.id.cmp(b.id)): a stable sort.
RECURSIVE InsertById(_, _)
InsertById(x, s) ==
    IF s = <<>> THEN <<x>>
    ELSE IF x.id < Head(s).id THEN <<x>> \o s
    ELSE <<Head(s)>> \o InsertById(x, Tail(s))

RECURSIVE SortById(_)
SortById(s) ==
    IF s = <<>> THEN <<>>
    ELSE InsertById(s[Len(s)], SortById(SubSeq(s, 1, Len(s) - 1)))

\* select_spells, lines 72-77: ask every alive-and-connected player, then wait.
EnterSelectSpells(w) ==
    /\ left_to_choose' = Range(all_active_ids(w))
    /\ spells' = <<>>
    /\ pc' = "select_spells"

\* The exit test taken one answer early.
SelectNextEarly(left, sp) ==
    /\ left_to_choose' = left
    /\ IF Cardinality(left) <= 1
       THEN spells' = SortById(sp) /\ pc' = "do_spell"
       ELSE spells' = sp /\ pc' = "select_spells"

\* The exit of select_spells without the sort of line 135.
SelectNextUnsorted(left, sp) ==
    /\ left_to_choose' = left
    /\ IF left = {}
       THEN spells' = sp /\ pc' = "do_spell"
       ELSE spells' = sp /\ pc' = "select_spells"

\* select_spells, the exit test after an id left the set (lines 89-91, 101-103,
\* 114-116, 122-124) and the sort of line 135.
SelectNext(left, sp) ==
    /\ left_to_choose' = left
    /\ IF left = {}
       THEN spells' = SortById(sp) /\ pc' = "do_spell"
       ELSE spells' = sp /\ pc' = "select_spells"

\* The task spawned in ChaosServer::new ends with p ("shutdown", "error" or a panic):
\* game_loop's ServerState and locals are dropped with it.
TaskEnds(p) ==
    /\ pc' = p
    /\ wizards' = <<>>
    /\ arena' = {}
    /\ moves_left' = 0
    /\ left_to_choose' = {}
    /\ spells' = <<>>
    /\ acting' = {}
    /\ prompt' = "none"
    /\ tiles' = <<>>
    /\ casting' = None
    /\ order' = <<>>
    /\ turn' = 0
    /\ result' = <<>>

NoPrompt ==
    /\ prompt' = "none"
    /\ tiles' = <<>>

\* do_spell returned Ok and the win condition is not looked at.
SpellReturnsNoCheck(w, a) ==
    /\ wizards' = w
    /\ arena' = a
    /\ moves_left' = moves_left
    /\ NoPrompt
    /\ casting' = None
    /\ acting' = {}
    /\ pc' = "do_spell"
    /\ result' = result

\* game_loop, lines 1627-1629: do_spell returned Ok.
SpellReturns(w, a) ==
    /\ wizards' = w
    /\ arena' = a
    /\ moves_left' = moves_left
    /\ NoPrompt
    /\ casting' = None
    /\ acting' = {}
    /\ IF check_for_winning_condition(w)
       THEN pc' = "results" /\ result' = winners(w)
       ELSE pc' = "do_spell" /\ result' = result

\* game_loop, lines 1641-1643: movement_loop returned Ok.
MovementReturns(w, a) ==
    /\ wizards' = w
    /\ arena' = a
    /\ moves_left' = 0
    /\ NoPrompt
    /\ acting' = {}
    /\ IF check_for_winning_condition(w)
       THEN pc' = "results" /\ result' = winners(w)
       ELSE pc' = "turns" /\ result' = result

\* chosen_tile without the early return of lines 145-147.
ChosenTileWaitsAlways(w, id) == TRUE

\* chosen_tile, lines 145-148: the prompt has been sent; wait unless id has disconnected.
\* Yields whether chosen_tile waits (TRUE) or returned None at once (FALSE).
ChosenTileWaits(w, id) == ~has_disconnected(w, id)

\* movement_loop, lines 1323-1335: the top of the loop for mover id.
MovementLoop(w, a, m, id) ==
    IF \/ ~is_alive(w, id)
       \/ check_for_winning_condition(w)
       \/ tiles_with_moves_left(a, m, id) = <<>>
       \/ ~ChosenTileWaits(w, id)
    THEN MovementReturns(w, a)
    ELSE /\ wizards' = w
         /\ arena' = a
         /\ moves_left' = m
         /\ acting' = Some(id)
         /\ prompt' = "ChoosePiece"
         /\ tiles' = TileList(Range(tiles_with_moves_left(a, m, id)))
         /\ pc' = "chosen_tile"
         /\ result' = result

\* wizard_engaged_in_combat, lines 876-880: moves_left = 0, offer the adjacent foes.
WizardEngaged(w, a, id) ==
    \E S \in (SUBSET Opposition(a, id)) \ {{}} :
        /\ wizards' = w
        /\ arena' = a
        /\ moves_left' = 0
        /\ acting' = Some(id)
        /\ prompt' = "EngagedInCombat"
        /\ tiles' = TileList(S)
        /\ pc' = "chosen_tile"
        /\ result' = result

\* wizard_attack on the wizard `other`, lines 787-790 and 834-848.
WizardAttack(w, a, id, other) ==
    \/ MovementLoop(SetDead(w, other), kill_wizard_and_creations(a, other), 0, id)
    \/ MovementLoop(w, a, 0, id)

\* move_wizard, lines 895-907: offer the tiles around the wizard.
MoveWizard(w, a, m, id) ==
    \E S \in SUBSET Opposition(a, id) :
        /\ wizards' = w
        /\ arena' = a
        /\ moves_left' = m
        /\ acting' = Some(id)
        /\ prompt' = IF m = WizardMovement THEN "MovementRange"
                     ELSE "MovementPoints"
        /\ tiles' = <<EmptyTile>> \o TileList(S)
        /\ pc' = "chosen_tile"
        /\ result' = result

\* do_spell after chosen_tile returned r, for Disbelieve (lines 199-210), MagicBolt
\* (lines 454-479) and Lightning (lines 498-523); the target tile holds a wizard.
SpellTarget(w, r) ==
    IF r = {}
    THEN SpellReturns(w, arena)
    ELSE LET other == The(The(r))
         IN \/ /\ casting \in {"MagicBolt", "Lightning"}
               \* no line of sight: NoLineOfSight, the same list is offered again
               /\ wizards' = w
               /\ UNCHANGED <<arena, moves_left, acting, prompt, tiles, casting, pc, result>>
            \/ /\ casting \in {"MagicBolt", "Lightning"}
               \* defend_against_attack succeeds: the wizard is taken off the board
               /\ SpellReturns(w, kill_wizard_and_creations(arena, other))
            \/ \* Disbelieve on a tile without creation; a bolt that is defended
               SpellReturns(w, arena)

\* movement_loop after chosen_tile returned r for ChoosePiece (lines 1335-1397); the
\* piece is the mover's wizard.
PieceChosen(w, r) ==
    LET id == The(acting)
    IN IF r = {}
       THEN MovementReturns(w, arena)
       ELSE \/ WizardEngaged(w, arena, id)     \* check_engaged: a neighbouring foe engages
            \/ MoveWizard(w, arena, moves_left, id)

\* wizard_engaged_in_combat after chosen_tile returned r (lines 880-890).
EngagedChosen(w, r) ==
    LET id == The(acting)
    IN IF r = {}
       THEN MovementLoop(w, arena, moves_left, id)
       ELSE WizardAttack(w, arena, id, The(The(r)))

\* move_wizard after chosen_tile returned r (lines 907-953).
MoveChosen(w, r) ==
    LET id == The(acting)
    IN IF r = {}
       THEN MovementLoop(w, arena, 0, id)
       ELSE IF The(r) # EmptyTile
       THEN WizardAttack(w, arena, id, The(The(r)))
       ELSE \/ WizardEngaged(w, arena, id)     \* has_neighbouring_foes at the new tile
            \/ LET m1 == moves_left - 1
               IN IF m1 = 0
                  THEN MovementLoop(w, arena, m1, id)
                  ELSE MoveWizard(w, arena, m1, id)

\* chosen_tile returned r (None, or Some of what stands on the chosen tile) to its caller.
ChosenTileReturns(w, r) ==
    CASE prompt = "ChooseTarget" -> SpellTarget(w, r)
      [] prompt = "ChoosePiece" -> PieceChosen(w, r) /\ UNCHANGED casting
      [] prompt = "EngagedInCombat" -> EngagedChosen(w, r) /\ UNCHANGED casting
      [] prompt \in {"MovementRange", "MovementPoints"} -> MoveChosen(w, r) /\ UNCHANGED casting

-----------------------------------------------------------------------------
(* The handlers *)

\* select_spells, lines 85-93: RecieveMsg::Disconnected { id }.
SelectDisconnected(id) ==
    /\ pc = "select_spells"
    /\ conn[id] = "open"
    /\ conn' = [conn EXCEPT ![id] = "closed"]
    /\ IF id \in left_to_choose
       THEN /\ wizards' = SetDisconnected(wizards, id)
            /\ SelectNext(left_to_choose \ {id}, spells)
       ELSE UNCHANGED <<wizards, left_to_choose, spells, pc>>
    /\ UNCHANGED <<arena, moves_left, acting, prompt, tiles, casting, order, turn, result>>
    /\ UNCHANGED outsideGame

\* select_spells, lines 107-112, for ChosenSpell(Some((k, _))) with k > 0 from a player
\* that is waited for: the roster afterwards (Option), None when
\* find_wizard_mut(id).expect("wizard") or Vec::remove(k) panics.
chosen_spell(w, a, id, k) ==
    IF id \notin a \/ k >= Len(get(w, id).spells)
    THEN {}
    ELSE Some([w EXCEPT ![Find(w, id)].spells = RemoveAt(get(w, id).spells, k)])

\* select_spells, lines 96-126: Message::ChosenSpell(choice) from id.
\* choice is {} (None) or {[index, illusion]}.
SelectChosenSpell(id, choice) ==
    /\ pc = "select_spells"
    /\ conn[id] = "open"
    /\ LET left == left_to_choose \ {id}
           hand == get(wizards, id).spells
           k == The(choice).index
           rest == <<arena, moves_left, acting, prompt, tiles, casting, order, turn, result>>
       IN IF id \notin left_to_choose
          THEN UNCHANGED <<wizards, left_to_choose, spells, pc>> /\ UNCHANGED rest
          ELSE IF choice = {}
          THEN SelectNext(left, spells) /\ UNCHANGED wizards /\ UNCHANGED rest
          ELSE IF k = 0
          THEN /\ SelectNext(left, Append(spells,
                      [id |-> id, kind |-> hand[1], illusion |-> FALSE]))
               /\ UNCHANGED wizards
               /\ UNCHANGED rest
          ELSE IF chosen_spell(wizards, arena, id, k) = {}
          THEN TaskEnds("panic")
          ELSE /\ wizards' = The(chosen_spell(wizards, arena, id, k))
               /\ SelectNext(left, Append(spells,
                      [id |-> id, kind |-> hand[k + 1],
                       illusion |-> The(choice).illusion]))
               /\ UNCHANGED rest
    /\ UNCHANGED conn
    /\ UNCHANGED outsideGame

\* select_spells, lines 127 and 130: any other message is dropped.
SelectIgnored(id) ==
    /\ pc = "select_spells"
    /\ conn[id] = "open"
    /\ UNCHANGED vars

\* game_loop, lines 1625-1626 with do_spell up to its first wait (lines 185-198,
\* 443-453, 485-497).
DoSpell ==
    /\ pc = "do_spell"
    /\ IF spells = <<>>
       THEN /\ pc' = "environment"
            /\ UNCHANGED <<wizards, arena, moves_left, spells, acting, prompt, tiles,
                           casting, result, left_to_choose, order, turn>>
       ELSE LET id == Head(spells).id
                kind == Head(spells).kind
            IN IF id \notin arena
               THEN \* find_wizard_mut(id).expect("wizard")
                    TaskEnds("panic")
               ELSE /\ spells' = Tail(spells)
                    /\ UNCHANGED <<left_to_choose, order, turn>>
                    /\ \/ /\ kind \in {"MagicBolt", "Lightning"}
                          \* spell.cast fails
                          /\ SpellReturns(wizards, arena)
                       \/ \E S \in SUBSET Opposition(arena, id) :
                             IF S = {} \/ ~ChosenTileWaits(wizards, id)
                             THEN SpellReturns(wizards, arena)
                             ELSE /\ acting' = Some(id)
                                  /\ casting' = kind
                                  /\ prompt' = "ChooseTarget"
                                  /\ tiles' = TileList(S)
                                  /\ pc' = "chosen_tile"
                                  /\ UNCHANGED <<wizards, arena, moves_left, result>>
    /\ UNCHANGED conn
    /\ UNCHANGED outsideGame

\* chosen_tile, lines 155-160: RecieveMsg::Disconnected { id: d }.
TileDisconnected(d) ==
    /\ pc = "chosen_tile"
    /\ conn[d] = "open"
    /\ conn' = [conn EXCEPT ![d] = "closed"]
    /\ IF d \notin Ids(wizards)
       THEN \* get_mut(d)? is Err(GenericError)
            TaskEnds("error")
       ELSE IF Some(d) = acting
       THEN /\ ChosenTileReturns(SetDisconnected(wizards, d), {})
            /\ UNCHANGED <<left_to_choose, spells, order, turn>>
       ELSE /\ wizards' = SetDisconnected(wizards, d)
            /\ UNCHANGED <<arena, moves_left, acting, prompt, tiles, casting, pc, result>>
            /\ UNCHANGED <<left_to_choose, spells, order, turn>>
    /\ UNCHANGED outsideGame

\* chosen_tile, lines 164-173: what a ChosenTile(choice) of the awaited id does with the
\* candidate list t.  None returns None, an index that tiles.get finds returns that
\* tile, and any other index falls out of the `if let`: the loop goes on waiting.
ChosenTileAnswer(t, choice) ==
    IF choice = {}
    THEN [waits |-> FALSE, tile |-> {}]
    ELSE IF The(choice) < Len(t)
    THEN [waits |-> FALSE, tile |-> Some(t[The(choice) + 1])]
    ELSE [waits |-> TRUE, tile |-> {}]

\* chosen_tile, lines 163-174: Message::ChosenTile(choice) from the awaited id.
\* choice is {} (None) or {index}.
TileChosen(choice) ==
    /\ pc = "chosen_tile"
    /\ conn[The(acting)] = "open"
    /\ LET answer == ChosenTileAnswer(tiles, choice)
       IN IF answer.waits
          THEN UNCHANGED <<wizards, arena, moves_left, acting, prompt, tiles, casting, pc,
                           result>>
          ELSE ChosenTileReturns(wizards, answer.tile)
    /\ UNCHANGED <<conn, left_to_choose, spells, order, turn>>
    /\ UNCHANGED outsideGame

\* chosen_tile, lines 175 and 178: a ChosenTile of another id and any other message.
TileIgnored(id) ==
    /\ pc = "chosen_tile"
    /\ conn[id] = "open"
    /\ UNCHANGED vars

\* game_loop, lines 1631-1634: the environment tick, then the movement order.  On a
\* board that holds only wizards there is no shelter, no magic wood and no spawn.
Environment ==
    /\ pc = "environment"
    /\ order' = all_active_ids(wizards)
    /\ pc' = "turns"
    /\ UNCHANGED <<wizards, arena, moves_left, conn, left_to_choose, spells, acting,
                   prompt, tiles, casting, turn, result>>
    /\ UNCHANGED outsideGame

\* game_loop, lines 1634-1648: the next movement turn, or the end of the round.
Turns ==
    /\ pc = "turns"
    /\ IF order = <<>>
       THEN /\ turn' = turn + 1
            /\ IF turn + 1 = number_of_turns(wizards)
               THEN /\ pc' = "results"
                    /\ result' = winners(wizards)
                    /\ UNCHANGED <<left_to_choose, spells>>
               ELSE /\ EnterSelectSpells(wizards)
                    /\ UNCHANGED result
            /\ UNCHANGED <<wizards, arena, moves_left, order, acting, prompt, tiles>>
       ELSE LET id == Head(order)
            IN /\ order' = Tail(order)
               /\ UNCHANGED <<turn, left_to_choose, spells>>
               /\ IF ~is_alive(wizards, id)
                  THEN UNCHANGED <<wizards, arena, moves_left, acting, prompt, tiles, pc,
                                   result>>
                  ELSE MovementLoop(wizards, arena, reset_moves(arena, id), id)
    /\ UNCHANGED <<conn, casting>>
    /\ UNCHANGED outsideGame

\* The select! branch on quit_rx of every wait (lines 33-35, 80-82, 150-152) and
\* end (lines 1653-1654): Sender::shutdown, then Err(NetworkError::Shutdown).  The
\* branch is taken on a signal that is pending, or on one that arrives while the task
\* is parked in the wait.
Shutdown ==
    /\ pc \in {"select_spells", "chosen_tile", "results"}
    /\ TaskEnds("shutdown")
    /\ quit' = FALSE
    /\ UNCHANGED conn
    /\ UNCHANGED offStage

\* Spell indexes a client may send: those of a full hand, and one beyond it.
SpellIndexes == 0 .. NumberOfSpells

\* The illusion flag is read for creation spells only, which are not dealt here.
SpellChoices == {{}} \cup {Some([index |-> k, illusion |-> FALSE]) : k \in SpellIndexes}

TileChoices == {{}} \cup {Some(k) : k \in 0 .. MaxPlayers}

Next ==
    \/ \E id \in ConnIds : SelectDisconnected(id)
    \/ \E id \in ConnIds : \E c \in SpellChoices : SelectChosenSpell(id, c)
    \/ \E id \in ConnIds : SelectIgnored(id)
    \/ DoSpell
    \/ \E d \in ConnIds : TileDisconnected(d)
    \/ \E c \in TileChoices : TileChosen(c)
    \/ \E id \in ConnIds : TileIgnored(id)
    \/ Environment
    \/ Turns
    \/ Shutdown

Spec == Init /\ [][Next]_vars

-----------------------------------------------------------------------------
(* The inputs of clients that keep to the protocol *)

\* A ChosenSpell of a roster player that is None or an index inside its hand.
InHand(id, c) == IF c = {} THEN TRUE ELSE The(c).index < Len(get(wizards, id).spells)

\* A ChosenTile that is None or an index inside the candidate list that was offered.
Offered(c) == IF c = {} THEN TRUE ELSE The(c) < Len(tiles)

NextInProtocol ==
    \/ \E id \in Ids(wizards) : SelectDisconnected(id)
    \/ \E id \in Ids(wizards) : \E c \in SpellChoices : InHand(id, c) /\ SelectChosenSpell(id, c)
    \/ DoSpell
    \/ \E d \in Ids(wizards) : TileDisconnected(d)
    \/ \E c \in TileChoices : Offered(c) /\ TileChosen(c)
    \/ Environment
    \/ Turns
    \/ Shutdown

SpecInProtocol == Init /\ [][NextInProtocol]_vars

-----------------------------------------------------------------------------
(* The quit signal that is sent before the state machine looks at it *)

Ended == {"shutdown", "error", "panic"}

\* ChaosServer::shutdown: quit_tx.send(()).  The task is not parked on quit_rx alone:
\* messages may be queued on rx when it next polls the select!, which has no `biased;`
\* and so polls its ready branches in a random order.
Quit ==
    /\ ~quit
    /\ pc \notin Ended
    /\ quit' = TRUE
    /\ UNCHANGED <<gameVars, offStage>>

NextQuit ==
    \/ Next
    \/ Quit

SpecQuit == Init /\ [][NextQuit]_vars

-----------------------------------------------------------------------------
(* connection_loop (src/net/server.rs) *)

\* Notifications kept on the inbound channel in this model (its capacity is 64).
MaxInbox == 4

RecieveMsg(kind) == [kind |-> kind, id |-> conn_id]

\* tokio::spawn(connection_loop(stream, conn_tx.clone(), broad_tx.subscribe(), id)).
InitConn ==
    /\ InitGame
    /\ conn_id \in ConnIds
    /\ task = "spawned"
    /\ cause = "none"
    /\ inbox = <<>>
    /\ IdleLobby
    /\ IdleBoard
    /\ IdleCall

\* A `?` on a failed operation of kind c: the task returns Err, nothing is sent.
ReturnsErr(c) ==
    /\ task' = "returned_err"
    /\ cause' = c
    /\ UNCHANGED <<conn_id, inbox>>

\* writer.write / pong / ping: the socket write succeeds (ok) or fails.
WriterWrite(ok) ==
    IF ok THEN UNCHANGED connVars ELSE ReturnsErr("write")

\* Lines 18-22: Connected { id } is sent, the loop starts.
ConnStart ==
    /\ task = "spawned"
    /\ task' = "running"
    /\ inbox' = Append(inbox, RecieveMsg("Connected"))
    /\ UNCHANGED <<conn_id, cause>>
    /\ UNCHANGED outsideConn

\* Lines 25-44: the branch on reader.read().
ConnRead(read, ok) ==
    /\ task = "running"
    /\ CASE read = "Err" ->
               /\ inbox' = Append(inbox, RecieveMsg("Disconnected"))
               /\ task' = "returned_ok"
               /\ cause' = "read"
               /\ UNCHANGED conn_id
         [] read = "ClientMessage" ->
               /\ Len(inbox) < MaxInbox
               /\ inbox' = Append(inbox, RecieveMsg("Message"))
               /\ UNCHANGED <<conn_id, task, cause>>
         [] read = "Ping" -> WriterWrite(ok)
         [] read = "Pong" ->
               /\ Len(inbox) < MaxInbox
               /\ inbox' = Append(inbox, RecieveMsg("Latency"))
               /\ UNCHANGED <<conn_id, task, cause>>
    /\ UNCHANGED outsideConn

\* Lines 47-68 without the test of line 63: MessageToAllExcept reaches everybody.
written_to_everybody(m, id) ==
    CASE m.kind = "MessageToAll" ->
             Some([id |-> IF m.msg_id = {} THEN id ELSE The(m.msg_id)])
      [] m.kind = "MessageToId" -> IF m.to = id THEN Some([id |-> m.from]) ELSE {}
      [] m.kind = "MessageToAllExcept" -> Some([id |-> m.from])
      [] OTHER -> {}

\* Lines 47-68: the OutgoingMessage that the task of connection id hands to
\* writer.write for the SendMsg m, if it hands one.
written(m, id) ==
    CASE m.kind = "MessageToAll" ->
             Some([id |-> IF m.msg_id = {} THEN id ELSE The(m.msg_id)])
      [] m.kind = "MessageToId" -> IF m.to = id THEN Some([id |-> m.from]) ELSE {}
      [] m.kind = "MessageToAllExcept" -> IF m.from # id THEN Some([id |-> m.from]) ELSE {}
      [] OTHER -> {}

\* Lines 45-75: the branch on rx.recv(), the outbound broadcast channel.
\* rx is {} (Err: Lagged or Closed) or {SendMsg}.  args and ret keep the SendMsg
\* taken last and what was handed to writer.write for it.
ConnRecv(rx, ok) ==
    /\ task = "running"
    /\ IF rx = {}
       THEN /\ ReturnsErr("broadcast")
            /\ UNCHANGED <<args, ret>>
       ELSE LET m == The(rx)
            IN /\ args' = <<m>>
               /\ ret' = written(m, conn_id)
               /\ IF m.kind = "Shutdown"
                  THEN IF ok
                       THEN /\ task' = "returned_ok"
                            /\ cause' = "shutdown"
                            /\ UNCHANGED <<conn_id, inbox>>
                       ELSE ReturnsErr("write")
                  ELSE IF written(m, conn_id) # {}
                       THEN WriterWrite(ok)
                       ELSE UNCHANGED connVars
    /\ UNCHANGED <<gameVars, quit, lobbyVars, boardVars, castVars>>

\* Lines 76-78: the five-second interval, writer.ping().
ConnTick(ok) ==
    /\ task = "running"
    /\ WriterWrite(ok)
    /\ UNCHANGED outsideConn

Reads == {"Err", "ClientMessage", "Ping", "Pong"}

SendMsgs ==
    {[kind |-> "MessageToAll", msg_id |-> o, to |-> 0, from |-> 0] :
        o \in {{}} \cup {Some(j) : j \in ConnIds}}
    \cup {[kind |-> "MessageToId", msg_id |-> {}, to |-> i, from |-> j] :
              i \in ConnIds, j \in ConnIds}
    \cup {[kind |-> "MessageToAllExcept", msg_id |-> {}, to |-> 0, from |-> j] :
              j \in ConnIds}
    \cup {[kind |-> "Shutdown", msg_id |-> {}, to |-> 0, from |-> 0]}

NextConn ==
    \/ ConnStart
    \/ \E r \in Reads : \E ok \in BOOLEAN : ConnRead(r, ok)
    \/ \E m \in {{}} \cup {Some(x) : x \in SendMsgs} : \E ok \in BOOLEAN : ConnRecv(m, ok)
    \/ \E ok \in BOOLEAN : ConnTick(ok)

SpecConn == InitConn /\ [][NextConn]_vars

-----------------------------------------------------------------------------
(* server_loop and spawn_server (src/net/server.rs 83-115).  conn[i] is "none" *)
(* before connection i is accepted, "open" while its task runs and holds the   *)
(* broadcast receiver that server_loop subscribed for it, "closed" once the    *)
(* task has returned and dropped it.  spawn_server drops its own receiver      *)
(* (_broad_rx) when it returns, so the tasks hold the only receivers.          *)

\* Messages forwarded to the broadcast channel in this model.
MaxSent == 3

\* spawn_server: server_loop starts with `let mut id = 0` and nobody connected.
InitServer ==
    /\ pc = "server_loop"
    /\ conn = [i \in ConnIds |-> "none"]
    /\ sent = <<>>
    /\ lobby = {}
    /\ wizards = <<>>
    /\ arena = {}
    /\ moves_left = 0
    /\ left_to_choose = {}
    /\ spells = <<>>
    /\ acting = {}
    /\ prompt = "none"
    /\ tiles = <<>>
    /\ casting = None
    /\ order = <<>>
    /\ turn = 0
    /\ result = <<>>
    /\ quit = FALSE
    /\ IdleConn
    /\ IdleBoard
    /\ IdleCall

\* Lines 92-95: listener.accept() yields a stream; its task is spawned with a new
\* receiver and the next id.
Accept ==
    /\ pc = "server_loop"
    /\ conn_id < MaxConn
    /\ conn' = [conn EXCEPT ![conn_id] = "open"]
    /\ conn_id' = conn_id + 1
    /\ UNCHANGED <<pc, sent>>
    /\ UNCHANGED <<wizards, arena, moves_left, left_to_choose, spells, acting, prompt,
                   tiles, casting, order, turn, result, quit, task, cause, inbox, lobby,
                   boardVars, callVars>>

\* connection_loop of connection i returns (read error, write error, shutdown): its
\* receiver is dropped.
ConnectionEnds(i) ==
    /\ conn[i] = "open"
    /\ conn' = [conn EXCEPT ![i] = "closed"]
    /\ UNCHANGED <<pc, sent, conn_id>>
    /\ UNCHANGED <<wizards, arena, moves_left, left_to_choose, spells, acting, prompt,
                   tiles, casting, order, turn, result, quit, task, cause, inbox, lobby,
                   boardVars, callVars>>

\* Lines 96-102: a SendMsg of kind k arrives from GameLogic and is handed to
\* broad_tx.send, which returns Err when no receiver is left; `?` then ends the loop.
Forward(k) ==
    /\ pc = "server_loop"
    /\ Len(sent) < MaxSent
    /\ IF \A i \in ConnIds : conn[i] # "open"
       THEN /\ pc' = "returned_err"
            /\ sent' = sent
       ELSE /\ pc' = IF k = "Shutdown" THEN "returned_ok" ELSE "server_loop"
            /\ sent' = Append(sent, k)
    /\ UNCHANGED <<conn, conn_id>>
    /\ UNCHANGED <<wizards, arena, moves_left, left_to_choose, spells, acting, prompt,
                   tiles, casting, order, turn, result, quit, task, cause, inbox, lobby,
                   boardVars, callVars>>

SpecServer ==
    InitServer /\ [][\/ Accept
                     \/ \E i \in ConnIds : ConnectionEnds(i)
                     \/ \E m \in SendMsgs : Forward(m.kind)]_vars

-----------------------------------------------------------------------------
(* lobby_loop (src/net/server/game_logic.rs) with LobbyWizards (src/data/wizard.rs) *)

\* Connections that reach the lobby: one more than the lobby admits.
MaxLobbyConn == 9

LobbyConnIds == 0 .. (MaxLobbyConn - 1)

\* LobbyWizards::join, line 256.
MaxLobbyPlayers == 8

LobbyIds(p) == {w.id : w \in p}

Without(p, id) == {w \in p : w.id # id}

\* HashMap::insert(id, LobbyWizard { player, id, ready }): replaces the entry of id.
Insert(p, id, r) == Without(p, id) \cup {[id |-> id, ready |-> r]}

\* join without the test of lines 256-258.
join_uncapped(p, id) == [ok |-> TRUE, players |-> Insert(p, id, FALSE)]

\* LobbyWizards::join: the value returned and the map afterwards.
join(p, id) ==
    IF Cardinality(p) >= MaxLobbyPlayers
    THEN [ok |-> FALSE, players |-> p]
    ELSE [ok |-> TRUE, players |-> Insert(p, id, FALSE)]

\* LobbyWizards::leave: whether an entry was removed, and the map afterwards.
leave(p, id) == [some |-> id \in LobbyIds(p), players |-> Without(p, id)]

\* LobbyWizards::ready.
ready(p, id, r) ==
    IF id \in LobbyIds(p)
    THEN [ok |-> TRUE, players |-> Insert(p, id, r)]
    ELSE [ok |-> FALSE, players |-> p]

\* LobbyWizards::is_ready.
is_ready(p) == Cardinality(p) >= MinPlayers /\ \A w \in p : w.ready

\* lobby_loop, lines 46-52: what Message::Join from id does to the map, and what it
\* broadcasts.
OnJoin(p, id) ==
    LET r == join(p, id)
    IN [players |-> r.players, sent |-> IF r.ok THEN "Join" ELSE "none"]

\* No match is being played: game_loop has no ServerState.
NoGame ==
    /\ wizards = <<>>
    /\ arena = {}
    /\ conn = [i \in ConnIds |-> "open"]
    /\ moves_left = 0
    /\ left_to_choose = {}
    /\ spells = <<>>
    /\ acting = {}
    /\ prompt = "none"
    /\ tiles = <<>>
    /\ casting = None
    /\ order = <<>>
    /\ turn = 0
    /\ result = <<>>
    /\ quit = FALSE

InitLobby ==
    /\ pc = "lobby"
    /\ lobby = {}
    /\ sent = "none"
    /\ NoGame
    /\ IdleConn
    /\ IdleBoard
    /\ IdleCall

\* What lobby_loop does not touch.
LobbyKeeps ==
    UNCHANGED <<wizards, arena, moves_left, conn, left_to_choose, spells, acting, prompt,
                tiles, casting, order, turn, result, quit, connVars, boardVars, callVars>>

\* lines 38-40: RecieveMsg::Connected { id }: the roster is sent to id alone.
LobbyConnected(id) ==
    /\ pc = "lobby"
    /\ sent' = "LobbyWizards"
    /\ UNCHANGED <<lobby, pc>>
    /\ LobbyKeeps

\* lines 41-45: RecieveMsg::Disconnected { id }.
LobbyDisconnected(id) ==
    /\ pc = "lobby"
    /\ LET r == leave(lobby, id)
       IN /\ lobby' = r.players
          /\ sent' = IF r.some THEN "Leave" ELSE "none"
    /\ UNCHANGED pc
    /\ LobbyKeeps

\* lines 48-52: Message::Join(player) from id.
LobbyJoin(id) ==
    /\ pc = "lobby"
    /\ lobby' = OnJoin(lobby, id).players
    /\ sent' = OnJoin(lobby, id).sent
    /\ UNCHANGED pc
    /\ LobbyKeeps

\* lines 53-60: Message::Ready(r) from id.
LobbyReady(id, r) ==
    /\ pc = "lobby"
    /\ LET a == ready(lobby, id, r)
       IN /\ lobby' = a.players
          /\ sent' = IF a.ok THEN "Ready" ELSE "none"
          /\ pc' = IF a.ok /\ is_ready(a.players) THEN "start" ELSE "lobby"
    /\ LobbyKeeps

\* lines 61 and 64: any other message.
LobbyIgnored(id) ==
    /\ pc = "lobby"
    /\ sent' = "none"
    /\ UNCHANGED <<lobby, pc>>
    /\ LobbyKeeps

\* lines 33-35: the quit branch; the LobbyWizards is dropped with the task.
LobbyShutdown ==
    /\ pc = "lobby"
    /\ pc' = "shutdown"
    /\ lobby' = {}
    /\ sent' = "Shutdown"
    /\ LobbyKeeps

NextLobby ==
    \/ \E id \in LobbyConnIds : LobbyConnected(id)
    \/ \E id \in LobbyConnIds : LobbyDisconnected(id)
    \/ \E id \in LobbyConnIds : LobbyJoin(id)
    \/ \E id \in LobbyConnIds : \E r \in BOOLEAN : LobbyReady(id, r)
    \/ \E id \in LobbyConnIds : LobbyIgnored(id)
    \/ LobbyShutdown

SpecLobby == InitLobby /\ [][NextLobby]_vars

-----------------------------------------------------------------------------
(* Arena::kill_wizard_and_creations on the tiles themselves (src/data/arena.rs) *)

\* Tiles of the board.
BoardTiles == 2

\* Owner ids of the pieces on the board: those of the smallest roster.
OwnerIds == 0 .. (MinPlayers - 1)

OptionId == {{}} \cup {Some(o) : o \in OwnerIds}

\* Tile { spawn, corpse, creation, wizard }, each occupant reduced to its owner id
\* (GameCreation.id, GameWizard.id) and, for a spawn, its variant.
Tile ==
    [spawn : {{}} \cup {Some([kind |-> k, id |-> o]) : k \in {"Blob", "Fire"}, o \in OwnerIds},
     corpse : OptionId,
     creation : OptionId,
     wizard : OptionId]

\* The loop body of kill_wizard_and_creations that leaves the corpse where it lies.
kill_in_tile_keeps_corpse(t, id) ==
    [spawn |-> IF t.spawn # {} /\ The(t.spawn).id = id THEN {} ELSE t.spawn,
     corpse |-> t.corpse,
     creation |-> IF t.creation = Some(id) THEN {} ELSE t.creation,
     wizard |-> IF t.wizard = Some(id) THEN {} ELSE t.wizard]

\* kill_wizard_and_creations, lines 507-535: the loop body, for one tile.
kill_in_tile(t, id) ==
    [spawn |-> IF t.spawn = {} THEN t.spawn
               ELSE CASE The(t.spawn).kind = "Blob" ->
                             IF id = The(t.spawn).id THEN {} ELSE t.spawn
                      [] The(t.spawn).kind = "Fire" ->
                             IF id = The(t.spawn).id THEN {} ELSE t.spawn,
     corpse |-> IF t.corpse # {} /\ The(t.corpse) = id THEN {} ELSE t.corpse,
     creation |-> IF t.creation # {} /\ The(t.creation) = id THEN {} ELSE t.creation,
     wizard |-> IF t.wizard # {} /\ The(t.wizard) = id THEN {} ELSE t.wizard]

\* kill_wizard_and_creations, lines 505-537: every tile of each_tile_mut.
kill_on_board(b, id) == [k \in 1 .. Len(b) |-> kill_in_tile(b[k], id)]

\* The ids whose wizard stands on a tile: what `arena` keeps of the board.
WizardsOn(b) == {o \in OwnerIds : \E k \in 1 .. Len(b) : b[k].wizard = Some(o)}

InitBoard ==
    /\ pc = "board"
    /\ board \in [1 .. BoardTiles -> Tile]
    /\ killed = {}
    /\ NoGame
    /\ IdleConn
    /\ IdleLobby
    /\ IdleCall

Kill(id) ==
    /\ pc = "board"
    /\ board' = kill_on_board(board, id)
    /\ killed' = Some(id)
    /\ UNCHANGED <<gameVars, quit, connVars, lobbyVars, callVars>>

NextBoard == \E id \in OwnerIds : Kill(id)

SpecBoard == InitBoard /\ [][NextBoard]_vars

-----------------------------------------------------------------------------
(* Arena::move_creation on the tiles themselves (src/data/arena.rs) *)

\* Tiles of the board on which a creation is moved.
MoveTiles == 3

\* The tiles of that board: any creation and wizard; a spawn and a corpse are there or
\* not (move_creation does not look at them).
MoveTile ==
    {t \in Tile : t.spawn \subseteq {[kind |-> "Blob", id |-> 0]} /\ t.corpse \subseteq {0}}

\* move_creation with the wizard slot moved whether or not the source holds a wizard.
move_creation_and_wizard(b, s, d) ==
    LET b1 == [b EXCEPT ![s].wizard = {}, ![d].wizard = b[s].wizard]
    IN [b1 EXCEPT ![s].creation = {}, ![d].creation = b1[s].creation]

\* Arena::move_creation, lines 352-357.  In each assignment the right-hand take()
\* empties the source slot before the destination slot is written.
move_creation(b, s, d) ==
    LET b1 == IF b[s].wizard # {}
              THEN [b EXCEPT ![s].wizard = {}, ![d].wizard = b[s].wizard]
              ELSE b
    IN [b1 EXCEPT ![s].creation = {}, ![d].creation = b1[s].creation]

InitMove ==
    /\ pc = "board"
    /\ board \in [1 .. MoveTiles -> MoveTile]
    /\ killed = {}
    /\ NoGame
    /\ IdleConn
    /\ IdleLobby
    /\ IdleCall

\* A call from creation_attack or GameLogic::move_creation: s holds the creation that
\* moves and d is a tile of a movement or combat list around s, so another tile.
Move(s, d) ==
    /\ pc = "board"
    /\ s # d
    /\ board[s].creation # {}
    /\ board' = move_creation(board, s, d)
    /\ args' = <<s, d>>
    /\ UNCHANGED <<gameVars, quit, connVars, lobbyVars, killed, ret, castVars>>

SpecMove == InitMove /\ [][\E s, d \in 1 .. MoveTiles : Move(s, d)]_vars

-----------------------------------------------------------------------------
(* GameLogic::creation_attack on the tiles themselves (game_logic.rs 698-776) *)

\* What creation_attack reads besides the tiles: the stats of the attacker and of the
\* creation it attacks, the defence roll, the corpse flag, and whether one player is
\* left once the victim is dead.
Attacks ==
    [shadow_wood : BOOLEAN, magic_wood : BOOLEAN, success : BOOLEAN, corpse : BOOLEAN,
     win : BOOLEAN]

\* check_for_creation_ranged_combat(x), lines 1231-1252, for a creation without ranged
\* combat: get_creation(x, y) is .expect("creation").
check_for_creation_ranged_combat(b, x) == IF b[x].creation = {} THEN "panic" ELSE "Ok"

\* creation_attack from tile s on tile d by a creation of owner 0, with the inputs a:
\* the tiles afterwards and how the function ended.
creation_attack(b, s, d, a) ==
    LET tile == b[d]
        moved(b1) == move_creation(b1, s, d)
    IN IF tile.spawn # {}
       THEN IF a.success
            THEN LET b1 == [b EXCEPT ![d].spawn = {}]
                 IN IF ~a.shadow_wood /\ tile.creation = {} /\ tile.wizard = {}
                    THEN [board |-> moved(b1),
                          ret |-> check_for_creation_ranged_combat(moved(b1), d)]
                    ELSE [board |-> b1, ret |-> "Ok"]
            ELSE [board |-> b, ret |-> check_for_creation_ranged_combat(b, s)]
       ELSE IF tile.creation # {}
       THEN IF a.success
            THEN IF a.magic_wood
                 THEN IF tile.wizard = {}
                      THEN [board |-> b, ret |-> "panic"]     \* get_wizard(dx, dy)
                      ELSE LET b1 == kill_on_board(b, The(tile.wizard))
                           IN IF a.win \/ a.shadow_wood
                              THEN [board |-> b1, ret |-> "Ok"]
                              ELSE [board |-> moved(b1),
                                    ret |-> check_for_creation_ranged_combat(moved(b1), d)]
                 ELSE LET b1 == [b EXCEPT ![d].creation = {},
                                          ![d].corpse = IF a.corpse THEN tile.creation
                                                        ELSE tile.corpse]
                      IN IF ~a.shadow_wood /\ tile.wizard = {}
                         THEN [board |-> moved(b1),
                               ret |-> check_for_creation_ranged_combat(moved(b1), d)]
                         ELSE [board |-> b1, ret |-> "Ok"]
            ELSE [board |-> b, ret |-> check_for_creation_ranged_combat(b, s)]
       ELSE IF a.success
            THEN LET b1 == kill_on_board(b, The(tile.wizard))
                     b2 == IF a.shadow_wood THEN b1 ELSE moved(b1)
                 IN IF a.win
                    THEN [board |-> b1, ret |-> "Ok"]
                    ELSE [board |-> b2, ret |-> check_for_creation_ranged_combat(b2, d)]
            ELSE [board |-> b, ret |-> check_for_creation_ranged_combat(b, s)]

\* allow_attack (arena.rs 423-439) for an attacker of owner id: the tiles of
\* creation_combat_tiles.
allow_attack(t, id, magic_wood) ==
    IF t.creation # {}
    THEN The(t.creation) # id \/ (magic_wood /\ t.wizard # {} /\ t.wizard # Some(id))
    ELSE t.wizard # {} /\ t.wizard # Some(id)

\* Tile 1 holds the attacking creation of owner 0, tile 2 what it attacks, tile 3
\* other pieces.
InitAttack ==
    /\ pc = "board"
    /\ board \in {b \in [1 .. MoveTiles -> MoveTile] :
                     /\ b[1] = [spawn |-> {}, corpse |-> {}, creation |-> Some(0), wizard |-> {}]
                     /\ \E mw \in BOOLEAN : allow_attack(b[2], 0, mw)
                     /\ b[3].spawn = {} /\ b[3].corpse = {}}
    /\ killed = {}
    /\ NoGame
    /\ IdleConn
    /\ IdleLobby
    /\ IdleCall

\* shadow_wood_attack (lines 1297-1319) or creation_engaged_in_combat calls
\* creation_attack on a tile of creation_combat_tiles.
Attack(a) ==
    /\ pc = "board"
    /\ args = <<>>
    /\ allow_attack(board[2], 0, a.magic_wood)
    /\ a.magic_wood => board[2].creation # {} /\ board[2].wizard # {}
    /\ board' = creation_attack(board, 1, 2, a).board
    /\ ret' = creation_attack(board, 1, 2, a).ret
    /\ args' = <<a>>
    /\ UNCHANGED <<gameVars, quit, connVars, lobbyVars, killed, castVars>>

\* wizard_attack (lines 778-853) from tile s on tile d by the wizard of player 0,
\* with the inputs a; won is check_for_winning_condition before the victim is
\* marked dead (line 808).  The tiles afterwards and the messages sent to all, up to
\* the ranged-combat follow-up.
wizard_attack(b, s, d, a, won) ==
    LET tile == b[d]
        move_wizard(b1) == [b1 EXCEPT ![s].wizard = {}, ![d].wizard = b1[s].wizard]
    IN IF tile.spawn # {}
       THEN IF a.success
            THEN LET b1 == [b EXCEPT ![d].spawn = {}]
                 IN IF tile.creation = {} /\ tile.wizard = {}
                    THEN [board |-> move_wizard(b1),
                          sent |-> <<"SuccessfulAttack", "MoveWizard">>]
                    ELSE [board |-> b1, sent |-> <<"SuccessfulAttack">>]
            ELSE [board |-> b, sent |-> <<"FailedAttack">>]
       ELSE IF tile.creation # {}
       THEN IF a.success
            THEN IF a.magic_wood
                 THEN IF tile.wizard = {}
                      THEN [board |-> b, sent |-> <<"panic">>]     \* get_wizard(dx, dy)
                      ELSE LET b1 == kill_on_board(b, The(tile.wizard))
                           IN IF won
                              THEN [board |-> b, sent |-> <<"SuccessfulAttack">>]
                              ELSE IF a.win
                              THEN [board |-> b1, sent |-> <<"SuccessfulAttack">>]
                              ELSE [board |-> move_wizard(b1),
                                    sent |-> <<"SuccessfulAttack">>]
                 ELSE LET b1 == [b EXCEPT ![d].creation = {},
                                          ![d].corpse = IF a.corpse THEN tile.creation
                                                        ELSE tile.corpse]
                      IN IF tile.wizard = {}
                         THEN [board |-> move_wizard(b1),
                               sent |-> <<"SuccessfulAttack", "MoveWizard">>]
                         ELSE [board |-> b1, sent |-> <<"SuccessfulAttack">>]
            ELSE [board |-> b, sent |-> <<"FailedAttack">>]
       ELSE IF a.success
            THEN LET b1 == kill_on_board(b, The(tile.wizard))
                 IN IF a.win
                    THEN [board |-> b1, sent |-> <<"SuccessfulAttack">>]
                    ELSE [board |-> move_wizard(b1),
                          sent |-> <<"SuccessfulAttack", "MoveWizard">>]
            ELSE [board |-> b, sent |-> <<"FailedAttack">>]

\* GameLogic::move_wizard or wizard_engaged_in_combat calls wizard_attack for the
\* wizard of player 0, on foot on tile 3, on a tile of its combat list; ret keeps
\* the messages sent.
AttackOnFoot(a, won) ==
    /\ pc = "board"
    /\ args = <<>>
    /\ board[3].wizard = Some(0) /\ board[3].creation = {}
    /\ board[2].wizard # Some(0)
    /\ board[2].spawn # {} \/ allow_attack(board[2], 0, a.magic_wood)
    /\ a.magic_wood => board[2].creation # {} /\ board[2].wizard # {}
    /\ ~a.shadow_wood
    /\ board' = wizard_attack(board, 3, 2, a, won).board
    /\ ret' = wizard_attack(board, 3, 2, a, won).sent
    /\ args' = <<a, won>>
    /\ UNCHANGED <<gameVars, quit, connVars, lobbyVars, killed, castVars>>

\* creation_ranged_combat (lines 1111-1177) of a creation of player 0 on tile d, for
\* a target that is not undead: the tiles afterwards and the player marked dead.
creation_ranged_combat(b, d, a) ==
    LET tile == b[d]
    IN IF tile.spawn # {}
       THEN [board |-> IF a.success THEN [b EXCEPT ![d].spawn = {}] ELSE b, dead |-> {}]
       ELSE IF tile.creation # {} /\ a.success
       THEN IF a.magic_wood /\ tile.wizard # {}
            THEN [board |-> kill_on_board(b, The(tile.wizard)), dead |-> tile.wizard]
            ELSE [board |-> [b EXCEPT ![d].creation = {},
                                      ![d].corpse = IF a.corpse THEN tile.creation
                                                    ELSE tile.corpse],
                  dead |-> {}]
       ELSE IF tile.creation = {} /\ tile.wizard # {} /\ a.success
       THEN [board |-> kill_on_board(b, The(tile.wizard)), dead |-> tile.wizard]
       ELSE [board |-> b, dead |-> {}]

\* wizard_ranged_combat (lines 1179-1227) of the wizard of player 0 on tile d: the
\* tiles afterwards and the player marked dead.  In the magic-wood branch `other` is
\* the creation of the tile.
wizard_ranged_combat(b, d, a) ==
    LET tile == b[d]
    IN IF tile.spawn # {}
       THEN [board |-> IF a.success THEN [b EXCEPT ![d].spawn = {}] ELSE b, dead |-> {}]
       ELSE IF tile.creation # {} /\ a.success
       THEN IF a.magic_wood /\ tile.wizard # {}
            THEN [board |-> kill_on_board(b, The(tile.creation)), dead |-> tile.creation]
            ELSE [board |-> [b EXCEPT ![d].creation = {},
                                      ![d].corpse = IF a.corpse THEN tile.creation
                                                    ELSE tile.corpse],
                  dead |-> {}]
       ELSE IF tile.creation = {} /\ tile.wizard # {} /\ a.success
       THEN [board |-> kill_on_board(b, The(tile.wizard)), dead |-> tile.wizard]
       ELSE [board |-> b, dead |-> {}]

\* check_for_creation_ranged_combat / check_for_wizard_ranged_combat (lines 1231-1277):
\* the creation of player 0 on tile 1, or its wizard on tile 3, shoots at tile 2,
\* which is in range and in sight.  args keeps the clone of the tile taken before.
RangedAttack(a, by) ==
    /\ pc = "board"
    /\ args = <<>>
    /\ by = "wizard" => board[3].wizard = Some(0) /\ board[2].wizard # Some(0)
    /\ a.magic_wood => board[2].creation # {}
    /\ ~a.shadow_wood /\ ~a.win
    /\ LET r == IF by = "wizard" THEN wizard_ranged_combat(board, 2, a)
                ELSE creation_ranged_combat(board, 2, a)
       IN /\ board' = r.board
          /\ killed' = r.dead
    /\ args' = <<a, by, board[2]>>
    /\ UNCHANGED <<gameVars, quit, connVars, lobbyVars, ret, castVars>>

SpecAttack ==
    InitAttack /\ [][\/ \E a \in Attacks : Attack(a)
                     \/ \E a \in Attacks : \E won \in BOOLEAN : AttackOnFoot(a, won)
                     \/ \E a \in Attacks : \E by \in {"wizard", "creation"} :
                            RangedAttack(a, by)]_vars

-----------------------------------------------------------------------------
(* do_spell, SpellKind::Disbelieve on the chosen tile (game_logic.rs 200-209) *)

\* Disbelieve that removes the creation whether or not it is an illusion.
disbelieve_any(b, d, illusion) ==
    IF b[d].creation # {}
    THEN [board |-> [b EXCEPT ![d].creation = {}], sent |-> "Disbelieve{success:true}"]
    ELSE [board |-> b, sent |-> "Disbelieve{success:false}"]

\* Lines 200-209 for the chosen tile d; illusion is GameCreation.illusion of the
\* creation on d.  The tiles afterwards and the Disbelieve message sent.
disbelieve(b, d, illusion) ==
    IF b[d].creation # {} /\ illusion
    THEN [board |-> [b EXCEPT ![d].creation = {}], sent |-> "Disbelieve{success:true}"]
    ELSE [board |-> b, sent |-> "Disbelieve{success:false}"]

Disbelieve(d, illusion) ==
    /\ pc = "board"
    /\ illusion => board[d].creation # {}
    /\ board' = disbelieve(board, d, illusion).board
    /\ ret' = disbelieve(board, d, illusion).sent
    /\ args' = <<d, illusion>>
    /\ UNCHANGED <<gameVars, quit, connVars, lobbyVars, killed, castVars>>

SpecDisbelieve ==
    InitMove /\ [][\E d \in 1 .. MoveTiles : \E i \in BOOLEAN : Disbelieve(d, i)]_vars

-----------------------------------------------------------------------------
(* do_spell for the spell kinds that take a target (game_logic.rs 185-696).  *)
(* The board is the tiles within the spell's range of the caster, whose id   *)
(* is 0; every dice roll and every line-of-sight query is drawn.             *)

\* SpellKind: the variants whose arm of do_spell computes a targeting set.
Kinds ==
    {"Disbelieve", "Creation", "MagicFire", "GooeyBlob", "MagicWood", "ShadowWood", "Shelter",
     "Wall", "MagicBolt", "Lightning", "MagicalAttack", "Subversion", "RaiseDead"}

\* Spell { alignment, kind }: the alignment delta by its sign; attempts is the
\* payload of SpellKind::MagicalAttack.
Spells ==
    [kind : Kinds \ {"MagicalAttack"}, alignment : -1 .. 1, attempts : {0}]
        \cup [kind : {"MagicalAttack"}, alignment : -1 .. 1, attempts : 1 .. 2]

\* Arena::adjust_alignment: i8::saturating_add.
adjust_alignment(a, d) ==
    IF a + d > 127 THEN 127 ELSE IF a + d < -128 THEN -128 ELSE a + d

\* The targeting set of each arm: creation_spell_tiles (all_empty),
\* cast_spell_on_attackable_tiles (all_attackable_opposition, every creation taken
\* attackable), all_subvertable_opposition_tiles (every creation taken subvertable)
\* and visible_corpse_tiles.
targets(b, kind) ==
    LET empty(t) == t.spawn = {} /\ t.wizard = {} /\ t.creation = {}
        opposition(t) ==
            IF t.spawn # {} THEN The(t.spawn).kind = "Blob" /\ The(t.spawn).id # 0
            ELSE IF t.wizard # {} THEN t.wizard # Some(0)
            ELSE t.creation # {} /\ t.creation # Some(0)
    IN {k \in 1 .. Len(b) :
            CASE kind \in {"Disbelieve", "MagicBolt", "Lightning", "MagicalAttack"} ->
                    opposition(b[k])
              [] kind = "Subversion" ->
                    /\ opposition(b[k])
                    /\ b[k].spawn = {} /\ b[k].creation # {} /\ b[k].wizard = {}
              [] kind = "RaiseDead" -> empty(b[k]) /\ b[k].corpse # {}
              [] OTHER -> empty(b[k])}

\* A loop head that returns where the arm says `continue`: once something has been sent
\* in this step, the spell ends.
loop_head_returns(kind, b, a, l) ==
    IF targets(b, kind) = {} \/ l.sent # <<>>
    THEN [pc |-> "done", board |-> b, alignment |-> a,
          local |-> [l EXCEPT !.first = IF @ = "none" THEN "empty" ELSE @]]
    ELSE [pc |-> "chosen", board |-> b, alignment |-> a,
          local |-> [l EXCEPT !.sent = Append(@, "ChooseTarget"),
                              !.first = IF @ = "none" THEN "some" ELSE @]]

\* The head of the loop of an arm, after the messages of l.sent: the targeting set is
\* computed; empty, NoPossibleMoves is sent and do_spell returns; otherwise ChooseTarget
\* is sent and chosen_tile awaits the answer.
loop_head(kind, b, a, l) ==
    IF targets(b, kind) = {}
    THEN [pc |-> "done", board |-> b, alignment |-> a,
          local |-> [l EXCEPT !.sent = Append(@, "NoPossibleMoves"),
                              !.first = IF @ = "none" THEN "empty" ELSE @]]
    ELSE [pc |-> "chosen", board |-> b, alignment |-> a,
          local |-> [l EXCEPT !.sent = Append(@, "ChooseTarget"),
                              !.first = IF @ = "none" THEN "some" ELSE @]]

\* A board of the caster's neighbourhood: foes' spawns, corpses and wizards, and
\* creations of either side.
InitSpell ==
    /\ board \in [1 .. BoardTiles ->
                    {t \in Tile : /\ t.spawn \subseteq {[kind |-> "Blob", id |-> 1]}
                                  /\ t.corpse \subseteq {1}
                                  /\ t.wizard \subseteq {1}}]
    /\ killed = {}
    /\ \/ /\ pc = "do_spell"
          /\ args \in {<<s, i>> : s \in Spells, i \in BOOLEAN}
          /\ args[2] => args[1].kind = "Creation"
       \/ /\ pc = "check_for_ranged_combat"
          /\ args = <<>>
    /\ ret = None
    /\ alignment \in {-128, 0, 127}
    /\ local = [alignment |-> alignment, cast |-> FALSE, count |-> 0, first |-> "none",
                sent |-> <<"CastSpell">>, rolls |-> 0]
    /\ NoGame
    /\ IdleConn
    /\ IdleLobby

\* do_spell from its entry to its first wait for an answer (or to its return).  roll is
\* the outcome of spell.cast, sight the tiles that line_of_sight holds for.
Cast(roll, sight) ==
    /\ pc = "do_spell"
    /\ LET spell == args[1]
           kind == spell.kind
           l == [local EXCEPT !.sent = <<>>]
           rolled == [l EXCEPT !.rolls = @ + 1]
           after == adjust_alignment(alignment, spell.alignment)
           Return(b, a, ll, msgs) ==
               [pc |-> "done", board |-> b, alignment |-> a,
                local |-> [ll EXCEPT !.sent = @ \o msgs]]
           T == targets(board, kind)
           S == T \cap sight
           woods == [k \in 1 .. Len(board) |->
                        IF k \in S THEN [board[k] EXCEPT !.creation = Some(0)] ELSE board[k]]
           r == CASE kind = "MagicBolt" ->
                        IF roll THEN loop_head(kind, board, alignment, rolled)
                        ELSE Return(board, alignment, rolled, <<"SpellFails">>)
                  [] kind \in {"Lightning", "MagicalAttack"} ->
                        IF roll
                        THEN loop_head(kind, board, after,
                                       [rolled EXCEPT !.sent = <<"SpellSucceeds">>])
                        ELSE Return(board, alignment, rolled, <<"SpellFails">>)
                  [] kind = "MagicWood" ->
                        IF T = {} THEN loop_head(kind, board, alignment, l)
                        ELSE IF S = {}
                        THEN [pc |-> "loop", board |-> board, alignment |-> alignment,
                              local |-> [l EXCEPT !.first = "some"]]
                        ELSE IF ~roll
                        THEN Return(board, alignment, [rolled EXCEPT !.first = "some"],
                                    <<"CreationSpell(None)", "SpellFails">>)
                        ELSE LET ll == [rolled EXCEPT !.first = "some", !.cast = TRUE,
                                                      !.count = Cardinality(S),
                                                      !.sent = <<"CreationSpell", "SpellSucceeds">>]
                             IN IF Cardinality(S) = 8 THEN Return(woods, after, ll, <<>>)
                                ELSE IF T \ S = {} THEN loop_head(kind, woods, after, ll)
                                ELSE [pc |-> "loop", board |-> woods, alignment |-> after,
                                      local |-> ll]
                  [] OTHER -> loop_head(kind, board, alignment, l)
       IN /\ pc' = r.pc
          /\ board' = r.board
          /\ alignment' = r.alignment
          /\ local' = r.local
    /\ UNCHANGED <<wizards, arena, moves_left, conn, left_to_choose, spells, acting, prompt,
                   tiles, casting, order, turn, result, quit, connVars, lobbyVars, killed,
                   args, ret>>

\* do_spell from the answer of chosen_tile to its next wait (or to its return).  choice
\* is what chosen_tile returned (Option): None or a tile of the list offered; los is
\* line_of_sight to it, roll the outcome of spell.cast, defend that of the target's
\* defence roll, illusion GameCreation.illusion of the creation on it, near
\* is_next_to_shadow_wood.
Target(choice, los, roll, defend, illusion, near) ==
    /\ pc = "chosen"
    /\ choice \in {{}} \cup {Some(k) : k \in targets(board, args[1].kind)}
    /\ LET spell == args[1]
           kind == spell.kind
           d == The(choice)
           l == [local EXCEPT !.sent = <<>>]
           rolled == [l EXCEPT !.rolls = @ + 1]
           after == adjust_alignment(alignment, spell.alignment)
           Return(b, a, ll, msgs) ==
               [pc |-> "done", board |-> b, alignment |-> a,
                local |-> [ll EXCEPT !.sent = @ \o msgs]]
           placed == [board EXCEPT ![d].creation = Some(0)]
           kill_creation == [board EXCEPT ![d].creation = {}]
           destroy_all_wizard_creations(id) ==
               [k \in 1 .. Len(board) |->
                   [board[k] EXCEPT
                       !.spawn = IF @ # {} /\ The(@).id = id THEN {} ELSE @,
                       !.creation = IF @ = Some(id) THEN {} ELSE @]]
           r == CASE choice = {} -> Return(board, alignment, l, <<>>)
                  [] choice # {} /\ ~los /\ kind \notin {"Disbelieve", "MagicalAttack"} ->
                        loop_head(kind, board, alignment, [l EXCEPT !.sent = <<"NoLineOfSight">>])
                  [] OTHER ->
                     CASE kind = "Disbelieve" ->
                            IF disbelieve(board, d, illusion).board # board
                            THEN Return(disbelieve(board, d, illusion).board, after, l,
                                        <<"Disbelieve{success:true}", "SpellSucceeds">>)
                            ELSE Return(board, alignment, l,
                                        <<"Disbelieve{success:false}", "SpellFails">>)
                       [] kind = "Creation" ->
                            IF args[2] THEN Return(placed, after, l, <<"CreationSpell", "SpellSucceeds">>)
                            ELSE IF roll
                            THEN Return(placed, after, rolled, <<"CreationSpell", "SpellSucceeds">>)
                            ELSE Return(board, alignment, rolled, <<"CreationSpell(None)", "SpellFails">>)
                       [] kind = "MagicFire" ->
                            IF roll
                            THEN Return([board EXCEPT ![d].corpse = {},
                                                      ![d].spawn = Some([kind |-> "Fire", id |-> 0])],
                                        after, rolled, <<"CastFire", "SpellSucceeds">>)
                            ELSE Return(board, alignment, rolled, <<"CastFire(None)", "SpellFails">>)
                       [] kind = "GooeyBlob" ->
                            IF roll
                            THEN Return([board EXCEPT ![d].spawn = Some([kind |-> "Blob", id |-> 0])],
                                        after, rolled, <<"CastBlob", "SpellSucceeds">>)
                            ELSE Return(board, alignment, rolled, <<"CastBlob(None)", "SpellFails">>)
                       [] kind = "Shelter" ->
                            IF roll
                            THEN Return(placed, after, rolled, <<"SpellSucceeds", "CreationSpell">>)
                            ELSE Return(board, alignment, rolled, <<"CreationSpell(None)", "SpellFails">>)
                       [] kind = "ShadowWood" ->
                            IF near THEN loop_head(kind, board, alignment,
                                                   [l EXCEPT !.sent = <<"ShadowWoodInfo">>])
                            ELSE IF ~l.cast /\ ~roll
                            THEN Return(board, alignment, rolled, <<"CreationSpell(None)", "SpellFails">>)
                            ELSE LET ll == IF l.cast
                                           THEN [l EXCEPT !.count = @ + 1, !.sent = <<"CreationSpell">>]
                                           ELSE [rolled EXCEPT !.count = @ + 1, !.cast = TRUE,
                                                    !.sent = <<"CreationSpell", "SpellSucceeds">>]
                                     a == IF l.cast THEN alignment ELSE after
                                 IN IF ll.count = 8 THEN Return(placed, a, ll, <<>>)
                                    ELSE loop_head(kind, placed, a, ll)
                       [] kind = "Wall" ->
                            IF ~l.cast /\ ~roll
                            THEN Return(board, alignment, rolled, <<"CreationSpell(None)", "SpellFails">>)
                            ELSE LET counted == [(IF l.cast THEN l ELSE rolled) EXCEPT
                                                    !.count = @ + 1, !.sent = <<"CreationSpell">>]
                                 IN IF counted.count = 4 THEN Return(placed, alignment, counted, <<>>)
                                    ELSE IF l.cast THEN loop_head(kind, placed, alignment, counted)
                                    ELSE loop_head(kind, placed, after,
                                                   [counted EXCEPT !.cast = TRUE,
                                                       !.sent = <<"CreationSpell", "SpellSucceeds">>])
                       [] kind \in {"MagicBolt", "Lightning"} ->
                            IF board[d].creation # {}
                            THEN Return(IF defend THEN kill_creation ELSE board, alignment, l, <<kind>>)
                            ELSE IF board[d].wizard # {}
                            THEN Return(IF defend THEN kill_on_board(board, The(board[d].wizard))
                                        ELSE board, alignment, l, <<kind>>)
                            ELSE Return(board, alignment, l, <<>>)
                       [] kind = "MagicalAttack" ->
                            LET b == IF ~defend THEN board
                                     ELSE IF board[d].creation # {} THEN kill_creation
                                     ELSE IF board[d].wizard # {}
                                     THEN destroy_all_wizard_creations(The(board[d].wizard))
                                     ELSE board
                                 ll == [l EXCEPT !.count = @ + 1,
                                                 !.sent = IF board[d].creation # {} \/ board[d].wizard # {}
                                                          THEN <<kind>> ELSE <<>>]
                            IN IF ll.count < spell.attempts THEN loop_head(kind, b, alignment, ll)
                               ELSE Return(b, alignment, ll, <<>>)
                       [] kind = "Subversion" ->
                            IF roll /\ ~illusion /\ defend
                            THEN Return(placed, after, rolled, <<"SpellSucceeds", "Subversion">>)
                            ELSE Return(board, alignment, rolled, <<"SpellFails">>)
                       [] kind = "RaiseDead" ->
                            IF roll /\ defend
                            THEN Return([board EXCEPT ![d].corpse = {}, ![d].creation = Some(0)],
                                        after, rolled, <<"RaiseDead", "SpellSucceeds">>)
                            ELSE Return(board, alignment, rolled, <<"RaiseDead", "SpellFails">>)
       IN /\ pc' = r.pc
          /\ board' = r.board
          /\ alignment' = r.alignment
          /\ local' = r.local
    /\ UNCHANGED <<wizards, arena, moves_left, conn, left_to_choose, spells, acting, prompt,
                   tiles, casting, order, turn, result, quit, connVars, lobbyVars, killed,
                   args, ret>>

\* check_for_creation_ranged_combat / check_for_wizard_ranged_combat (lines 1231-1277)
\* of the piece of player 0, whose range covers the board: ChooseRangedCombat is sent,
\* and the answer is a tile in sight (the ranged attack is resolved: the target falls
\* when defend holds), a tile out of sight, or None.
RangedCombat(choice, los, defend) ==
    /\ pc \in {"check_for_ranged_combat", "ranged"}
    /\ choice \in {{}} \cup {Some(k) : k \in 1 .. Len(board)}
    /\ LET d == The(choice)
           t == board[d]
           hit == IF t.spawn # {} /\ The(t.spawn).kind = "Blob"
                  THEN [board EXCEPT ![d].spawn = {}]
                  ELSE IF t.creation # {} THEN [board EXCEPT ![d].creation = {}]
                  ELSE IF t.wizard # {} THEN kill_on_board(board, The(t.wizard))
                  ELSE board
       IN IF pc = "check_for_ranged_combat" \/ (choice # {} /\ ~los)
          THEN /\ pc' = "ranged"
               /\ local' = [local EXCEPT !.sent = IF pc = "ranged"
                                                  THEN <<"NoLineOfSight", "ChooseRangedCombat">>
                                                  ELSE <<"ChooseRangedCombat">>]
               /\ board' = board
          ELSE /\ pc' = "done"
               /\ local' = [local EXCEPT !.sent = IF choice = {} THEN <<>> ELSE <<"RangedAttack">>]
               /\ board' = IF choice # {} /\ defend THEN hit ELSE board
    /\ UNCHANGED <<wizards, arena, moves_left, conn, left_to_choose, spells, acting, prompt,
                   tiles, casting, order, turn, result, quit, connVars, lobbyVars, killed,
                   args, ret, alignment>>

SpecSpell ==
    InitSpell /\ [][\/ \E roll \in BOOLEAN : \E sight \in SUBSET (1 .. BoardTiles) :
                            Cast(roll, sight)
                    \/ \E choice \in {{}} \cup {Some(k) : k \in 1 .. BoardTiles} :
                            \E los, roll, defend, illusion, near \in BOOLEAN :
                                Target(choice, los, roll, defend, illusion, near)
                    \/ \E choice \in {{}} \cup {Some(k) : k \in 1 .. BoardTiles} :
                            \E los, defend \in BOOLEAN : RangedCombat(choice, los, defend)]_vars

\* do_spell runs on its own task and awaits nothing between its entry and its first
\* wait, so Cast is taken whenever it can be.  In the MagicWood arm a pass of `for (dx,
\* dy) in tiles` visits every empty tile in range and plants on those in sight; the tiles
\* left over are out of sight, and the trees planted can only hide more, so from pc =
\* "loop" every further pass finds the same list and changes nothing: the passes are
\* the stuttering steps of that state.
SpecSpellFair ==
    SpecSpell /\ WF_vars(\E roll \in BOOLEAN : \E sight \in SUBSET (1 .. BoardTiles) :
                             Cast(roll, sight))

-----------------------------------------------------------------------------
(* Fire on the tiles: what places a Spawn::Fire (spawn_fire, called by the   *)
(* MagicFire arm and by fire_attack) and what places a wizard, a creation or *)
(* a corpse (moves, attacks, creation spells, raise dead).                   *)

\* fire_attack that sets the tile alight whenever the creation on it has burnt.
fire_attack_under_the_rider(b, fire, d, defend) ==
    LET tile == b[d]
        spawn_fire(b1) ==
            [b1 EXCEPT ![d].corpse = {}, ![d].spawn = Some([kind |-> "Fire", id |-> fire])]
    IN IF tile.creation # {}
       THEN IF The(tile.creation) # fire /\ defend
            THEN spawn_fire([b EXCEPT ![d].creation = {}])
            ELSE b
       ELSE IF tile.wizard # {}
       THEN IF The(tile.wizard) # fire /\ defend
            THEN spawn_fire(kill_on_board(b, The(tile.wizard)))
            ELSE b
       ELSE spawn_fire(b)

\* fire_attack (lines 1402-1433) of a fire of owner `fire` on tile d; defend is the
\* outcome of defend_against_attack(5) of an attackable piece.  The tiles afterwards.
fire_attack(b, fire, d, defend) ==
    LET tile == b[d]
        spawn_fire(b1) ==
            [b1 EXCEPT ![d].corpse = {}, ![d].spawn = Some([kind |-> "Fire", id |-> fire])]
    IN IF tile.creation # {}
       THEN IF The(tile.creation) # fire /\ defend
            THEN IF tile.wizard = {}
                 THEN spawn_fire([b EXCEPT ![d].creation = {}])
                 ELSE [b EXCEPT ![d].creation = {}]
            ELSE b
       ELSE IF tile.wizard # {}
       THEN IF The(tile.wizard) # fire /\ defend
            THEN spawn_fire(kill_on_board(b, The(tile.wizard)))
            ELSE b
       ELSE spawn_fire(b)

\* A board on which nothing burns yet: any pieces, corpses and blobs.
InitFire ==
    /\ pc = "board"
    /\ board \in [1 .. BoardTiles ->
                    {t \in Tile : t.spawn = {} \/ The(t.spawn).kind = "Blob"}]
    /\ killed = {}
    /\ NoGame
    /\ IdleConn
    /\ IdleLobby
    /\ IdleCall

\* do_spell on the chosen tile d of the targeting set, in sight, the cast succeeding,
\* for the kinds that put something on d: spawn_fire, spawn_blob, a creation, raise_dead.
Conjure(kind, id, d) ==
    /\ pc = "board"
    /\ d \in targets(board, kind)
    /\ board' = CASE kind = "MagicFire" ->
                       [board EXCEPT ![d].corpse = {},
                                     ![d].spawn = Some([kind |-> "Fire", id |-> id])]
                  [] kind = "GooeyBlob" ->
                       [board EXCEPT ![d].spawn = Some([kind |-> "Blob", id |-> id])]
                  [] kind = "RaiseDead" ->
                       [board EXCEPT ![d].corpse = {}, ![d].creation = Some(id)]
                  [] OTHER -> [board EXCEPT ![d].creation = Some(id)]
    /\ args' = <<kind, d>>
    /\ UNCHANGED <<gameVars, quit, connVars, lobbyVars, killed, ret, castVars>>

\* do_fire (lines 1465-1578) for the spawn on tile s: it vanishes (d = s), or it
\* spreads to the neighbour d, which holds no spawn: fire_attack or blob_mutate
\* (lines 1435-1463).  ret keeps the clone of tile d taken before.
Spread(s, d, defend) ==
    /\ pc = "board"
    /\ board[s].spawn # {}
    /\ LET spawn == The(board[s].spawn)
           tile == board[d]
           spawn_blob(b1) == [b1 EXCEPT ![d].spawn = board[s].spawn]
           blob_mutate ==
               IF tile.creation # {}
               THEN IF The(tile.creation) # spawn.id THEN spawn_blob(board) ELSE board
               ELSE IF tile.wizard # {}
               THEN IF The(tile.wizard) # spawn.id /\ defend
                    THEN spawn_blob(kill_on_board(board, The(tile.wizard)))
                    ELSE board
               ELSE spawn_blob(board)
       IN IF d = s
          THEN board' = [board EXCEPT ![s].spawn = {}]
          ELSE /\ tile.spawn = {}
               /\ board' = IF spawn.kind = "Fire" THEN fire_attack(board, spawn.id, d, defend)
                           ELSE blob_mutate
    /\ args' = <<"do_fire", d>>
    /\ ret' = board[d]
    /\ UNCHANGED <<gameVars, quit, connVars, lobbyVars, killed, castVars>>

\* GameLogic::move_creation (lines 1000-1044) or move_wizard (894-954) of player 0 for
\* the piece on tile s and the chosen tile d of creation_movement_tiles or
\* wizard_movement_tiles (allow_movement_with_attack, allow_wizard_movement_with_attack,
\* arena.rs 372-419): the attack on what stands on d, or the move onto d.
Movement(s, d, a, won) ==
    /\ pc = "board"
    /\ s # d
    /\ ~a.shadow_wood
    /\ LET tile == board[d]
           creature == board[s].creation = Some(0)
           blob == tile.spawn # {} /\ The(tile.spawn).kind = "Blob" /\ The(tile.spawn).id # 0
           allowed ==
               IF tile.spawn # {} THEN blob
               ELSE IF tile.creation # {}
               THEN IF creature
                    THEN \/ tile.creation # Some(0)
                         \/ a.magic_wood /\ tile.wizard # {} /\ tile.wizard # Some(0)
                    ELSE TRUE
               ELSE tile.wizard # Some(0)
           attacks ==
               IF creature
               THEN tile.spawn # {} \/ tile.wizard # {} \/ tile.creation # {}
               ELSE \/ tile.spawn # {} \/ tile.wizard # {}
                    \/ tile.creation # {} /\ tile.creation # Some(0) /\ ~a.magic_wood
       IN /\ creature \/ board[s].wizard = Some(0)
          /\ allowed
          /\ a.magic_wood => tile.creation # {} /\ (attacks => tile.wizard # {})
          /\ board' = IF attacks
                      THEN IF creature THEN creation_attack(board, s, d, a).board
                           ELSE wizard_attack(board, s, d, a, won).board
                      ELSE IF creature THEN move_creation(board, s, d)
                           ELSE [board EXCEPT ![s].wizard = {}, ![d].wizard = Some(0)]
    /\ args' = <<"move", d>>
    /\ UNCHANGED <<gameVars, quit, connVars, lobbyVars, killed, ret, castVars>>

SpecFire ==
    InitFire /\ [][\/ \E kind \in {"MagicFire", "GooeyBlob", "RaiseDead", "Creation"} :
                         \E id \in OwnerIds : \E d \in 1 .. BoardTiles : Conjure(kind, id, d)
                   \/ \E s, d \in 1 .. BoardTiles : \E defend \in BOOLEAN :
                         Spread(s, d, defend)
                   \/ \E s, d \in 1 .. BoardTiles : \E a \in Attacks : \E won \in BOOLEAN :
                         Movement(s, d, a, won)]_vars

-----------------------------------------------------------------------------
(* Hands and the number_of_spells counter: From<LobbyWizard> (wizard.rs     *)
(* 229-243), select_spells (game_logic.rs 96-126) and the environment tick   *)
(* do_shelter_turn, do_magic_wood (1580-1609).  wizards[i].spells is the     *)
(* hand in the roster, wizards[i].number_of_spells the u8 counter in the     *)
(* stats of the GameWizard on the board; the spells other than Disbelieve    *)
(* are not told apart.  board is one tile with a combustible shelter.        *)

\* GameCreation::should_disappear (creation.rs 67-70) for the draw of gen_range(0..=9).
should_disappear(draw) == draw >= 8

\* The loop body of do_magic_wood that counts the gift on the board only.
do_magic_wood_uncounted(wz, draw) ==
    IF draw >= 8 /\ Len(wz.spells) < 20
    THEN [wz EXCEPT !.number_of_spells = (@ + 1) % 256]
    ELSE wz

\* The loop body of do_magic_wood (lines 1593-1606) for a wizard in a tree and the
\* draw of gen_range(0..=9): the wizard afterwards.
do_magic_wood(wz, draw) ==
    IF draw >= 8 /\ Len(wz.spells) < 20
    THEN [wz EXCEPT !.number_of_spells = (@ + 1) % 256, !.spells = Append(@, "Spell")]
    ELSE wz

\* select_spells, lines 96-126: Message::ChosenSpell(choice) from a player that is
\* waited for; choice is {} (None) or {index}.
ChooseSpell(id, choice) ==
    /\ pc = "select_spells"
    /\ id \in left_to_choose
    /\ IF choice = {} \/ choice = Some(0)
       THEN /\ wizards' = wizards
            /\ pc' = IF left_to_choose = {id} THEN "tick" ELSE "select_spells"
            /\ left_to_choose' = left_to_choose \ {id}
       ELSE IF chosen_spell(wizards, arena, id, The(choice)) = {}
       THEN /\ pc' = "panic"
            /\ UNCHANGED <<wizards, left_to_choose>>
       ELSE /\ wizards' = [The(chosen_spell(wizards, arena, id, The(choice))) EXCEPT
                              ![Find(wizards, id)].number_of_spells = (@ + 255) % 256]
            /\ pc' = IF left_to_choose = {id} THEN "tick" ELSE "select_spells"
            /\ left_to_choose' = left_to_choose \ {id}
    /\ args' = <<"ChosenSpell", id>>
    /\ UNCHANGED <<arena, moves_left, conn, spells, acting, prompt, tiles, casting, order,
                   turn, result, quit, connVars, lobbyVars, boardVars, ret, castVars>>

\* game_loop, lines 1630-1631: do_shelter_turn with the draw of the shelter, then
\* do_magic_wood with a draw for each wizard of `trees`, the wizards standing in magic
\* wood; the next select_spells asks everybody.
Tick(shelter, trees, draws) ==
    /\ pc = "tick"
    /\ board' = IF board[1].creation # {} /\ should_disappear(shelter)
                THEN [board EXCEPT ![1].creation = {}]
                ELSE board
    /\ wizards' = [i \in 1 .. Len(wizards) |->
                      IF wizards[i].id \in trees
                      THEN do_magic_wood(wizards[i], draws[wizards[i].id])
                      ELSE wizards[i]]
    /\ pc' = "select_spells"
    /\ left_to_choose' = arena
    /\ args' = <<"Tick">>
    /\ UNCHANGED <<arena, moves_left, conn, spells, acting, prompt, tiles, casting, order,
                   turn, result, quit, connVars, lobbyVars, killed, ret, castVars>>

\* The start of a match of two players: WizardStats::new draws 11 to 13 spells
\* (stats.rs 180), create_spells deals as many, Disbelieve first.
InitHand ==
    /\ pc = "select_spells"
    /\ wizards \in {w \in [1 .. MinPlayers ->
                             [id : OwnerIds, number_of_spells : 11 .. 13,
                              spells : {[j \in 1 .. n |-> IF j = 1 THEN "Disbelieve" ELSE "Spell"] :
                                           n \in 11 .. 13}]] :
                       \A i \in 1 .. MinPlayers :
                           w[i].id = i - 1 /\ Len(w[i].spells) = w[i].number_of_spells}
    /\ arena = OwnerIds
    /\ left_to_choose = OwnerIds
    /\ board = <<[spawn |-> {}, corpse |-> {}, creation |-> Some(0), wizard |-> {}]>>
    /\ killed = {}
    /\ conn = [i \in ConnIds |-> "open"]
    /\ moves_left = 0 /\ spells = <<>> /\ acting = {} /\ prompt = "none" /\ tiles = <<>>
    /\ casting = None /\ order = <<>> /\ turn = 0 /\ result = <<>> /\ quit = FALSE
    /\ IdleConn
    /\ IdleLobby
    /\ IdleCall

SpecHand ==
    InitHand /\ [][\/ \E id \in OwnerIds : \E choice \in {{}} \cup {Some(k) : k \in 0 .. 20} :
                        ChooseSpell(id, choice)
                   \/ \E shelter \in 0 .. 9 : \E trees \in SUBSET OwnerIds :
                        \E draws \in [OwnerIds -> 0 .. 9] : Tick(shelter, trees, draws)]_vars

-----------------------------------------------------------------------------
(* Arena::get, Arena::get_mut (arena.rs 91-93, 122-124) *)

\* Arena::new: let width = 15; let height = 10; tiles has width * height entries.
width == 15

height == 10

\* tiles.get(((y * self.width) + x) as usize).expect("tile") for u8 x, y and u8 width:
\* the index of the tile returned (Option), None for a panic.  The product and the sum
\* are u8 arithmetic: where they overflow, a build with overflow checks panics and a
\* build without wraps modulo 2^8.
Arena_get(x, y, overflow_checks) ==
    LET product == y * width
        sum == (product % 256) + x
        index == sum % 256
    IN IF overflow_checks /\ (product > 255 \/ sum > 255) THEN {}
       ELSE IF index < width * height THEN Some(index)
       ELSE {}

InitGet ==
    /\ pc = "call"
    /\ args \in (0 .. 255) \X (0 .. 255)
    /\ ret = None
    /\ alignment = 0
    /\ local = <<>>
    /\ NoGame
    /\ IdleConn
    /\ IdleLobby
    /\ IdleBoard

\* get(x, y) for the u8 pair of args.
Get(overflow_checks) ==
    /\ pc = "call"
    /\ pc' = "called"
    /\ ret' = Arena_get(args[1], args[2], overflow_checks)
    /\ UNCHANGED <<wizards, arena, moves_left, conn, left_to_choose, spells, acting, prompt,
                   tiles, casting, order, turn, result, quit, connVars, lobbyVars, boardVars,
                   args, castVars>>

SpecGet == InitGet /\ [][\E checks \in BOOLEAN : Get(checks)]_vars

-----------------------------------------------------------------------------
(* The targeting set of Disbelieve by distance (arena.rs 126-131, 154-169) *)

\* The caster and the creation stand anywhere on the board.
InitRange ==
    /\ pc = "call"
    /\ args \in {<<x, y, tile_x, tile_y>> :
                    x \in 0 .. (width - 1), y \in 0 .. (height - 1),
                    tile_x \in 0 .. (width - 1), tile_y \in 0 .. (height - 1)}
    /\ ret = None
    /\ alignment = 0
    /\ local = <<>>
    /\ NoGame
    /\ IdleConn
    /\ IdleLobby
    /\ IdleBoard

\* do_spell, lines 191-193: cast_spell_on_attackable_tiles with the range of Disbelieve,
\* u8::MAX (spells.rs 128), asked about the tile (tile_x, tile_y), which holds nothing
\* but an attackable creation of another player, so that the filter of
\* all_attackable_opposition holds for it.  What is left is the filter of
\* each_tile_in_spell_range (arena.rs 126-131) for the caster on (x, y): the squared
\* distance is compared with the range itself.
DisbelieveTargets ==
    /\ pc = "call"
    /\ pc' = "called"
    /\ LET x == args[1]
           y == args[2]
           tile_x == args[3]
           tile_y == args[4]
           range == 255
           distance == (tile_x - x) * (tile_x - x) + (tile_y - y) * (tile_y - y)
       IN ret' = (distance <= range /\ distance > 0)
    /\ UNCHANGED <<wizards, arena, moves_left, conn, left_to_choose, spells, acting, prompt,
                   tiles, casting, order, turn, result, quit, connVars, lobbyVars, boardVars,
                   args, castVars>>

SpecRange == InitRange /\ [][DisbelieveTargets]_vars

-----------------------------------------------------------------------------
(* Spell::cast_chance (spells.rs 22-28) *)

\* cast_chance without the final min(9).
cast_chance_unclamped(chance, spell_alignment, world, spell_ability, overflow_checks) ==
    LET boost == IF (spell_alignment > 0 /\ world > 0) \/ (spell_alignment < 0 /\ world < 0)
                 THEN (IF world < 0 THEN -world ELSE world) \div 4
                 ELSE 0
    IN Some(chance + boost + spell_ability)

\* chance is Spell.chance (u8), spell_alignment Spell.alignment (i8), world the world
\* alignment (i8), spell_ability u8.  The value returned (Option), None for a panic.
\* i8 arithmetic: alignment.abs() overflows for -128, and so may the sums; a build with
\* overflow checks panics there, a build without wraps modulo 2^8 (abs(-128) = -128).
\* The quotient of i8 division truncates towards zero.
cast_chance(chance, spell_alignment, world, spell_ability, overflow_checks) ==
    LET i8(n) == ((n + 128) % 256) - 128
        fits(n) == n >= -128 /\ n <= 127
        quot(n, d) == IF n < 0 THEN -((-n) \div d) ELSE n \div d
        aligned == (spell_alignment > 0 /\ world > 0) \/ (spell_alignment < 0 /\ world < 0)
        abs == IF world < 0 THEN -world ELSE world
        raised == IF aligned THEN chance + quot(i8(abs), 4) ELSE chance
        sum == i8(raised) + spell_ability
    IN IF overflow_checks /\ ((aligned /\ ~fits(abs)) \/ ~fits(raised) \/ ~fits(sum)) THEN {}
       ELSE IF i8(sum) < 9 THEN Some(i8(sum)) ELSE Some(9)

\* Base chance and spell ability 0 .. 9, every world alignment of an i8, spell
\* alignments of either sign.
InitCastChance ==
    /\ pc = "call"
    /\ args \in (0 .. 9) \X (-2 .. 2) \X (-128 .. 127) \X (0 .. 9)
    /\ ret = None
    /\ alignment = 0
    /\ local = <<>>
    /\ NoGame
    /\ IdleConn
    /\ IdleLobby
    /\ IdleBoard

\* cast_chance(alignment, spell_ability) of the spell of args.
CastChance(overflow_checks) ==
    /\ pc = "call"
    /\ pc' = "called"
    /\ ret' = cast_chance(args[1], args[2], args[3], args[4], overflow_checks)
    /\ UNCHANGED <<wizards, arena, moves_left, conn, left_to_choose, spells, acting, prompt,
                   tiles, casting, order, turn, result, quit, connVars, lobbyVars, boardVars,
                   args, castVars>>

SpecCastChance == InitCastChance /\ [][\E checks \in BOOLEAN : CastChance(checks)]_vars

-----------------------------------------------------------------------------
(* Arena::line_coords, Arena::line_of_sight (arena.rs 539-565, 618-641) *)

\* The corner of the arena that is modelled: tiles (x, y) with x < GridWidth and
\* y < GridHeight, stored row by row as Arena.tiles is.
GridWidth == 9

GridHeight == 2

\* line_coords: the pixels from the centre of tile s to the centre of tile d
\* (16 pixels a tile), as the loop pushes them.
line_coords(s, d) ==
    LET tx == d[1] * 16 + 8
        ty == d[2] * 16 + 8
        abs(n) == IF n < 0 THEN -n ELSE n
        delta_x == abs(tx - (s[1] * 16 + 8))
        delta_y == abs(ty - (s[2] * 16 + 8))
        sign_x == IF s[1] * 16 + 8 < tx THEN 1 ELSE -1
        sign_y == IF s[2] * 16 + 8 < ty THEN 1 ELSE -1
        \* One turn of the loop after its push and its test.
        step(p) ==
            LET e2 == 2 * p.err
                across == e2 > -delta_y
                along == e2 < delta_x
            IN [x |-> IF across THEN p.x + sign_x ELSE p.x,
                y |-> IF along THEN p.y + sign_y ELSE p.y,
                err |-> p.err - (IF across THEN delta_y ELSE 0)
                              + (IF along THEN delta_x ELSE 0)]
        arrived(p) == p.x = tx /\ p.y = ty
        \* The pushes from p on, four turns of the loop at a time.
        RECURSIVE walk(_)
        walk(p) ==
            LET p1 == step(p)
                p2 == step(p1)
                p3 == step(p2)
            IN IF arrived(p) THEN <<<<p.x, p.y>>>>
               ELSE IF arrived(p1) THEN <<<<p.x, p.y>>, <<p1.x, p1.y>>>>
               ELSE IF arrived(p2) THEN <<<<p.x, p.y>>, <<p1.x, p1.y>>, <<p2.x, p2.y>>>>
               ELSE IF arrived(p3)
               THEN <<<<p.x, p.y>>, <<p1.x, p1.y>>, <<p2.x, p2.y>>, <<p3.x, p3.y>>>>
               ELSE <<<<p.x, p.y>>, <<p1.x, p1.y>>, <<p2.x, p2.y>>, <<p3.x, p3.y>>>>
                        \o walk(step(p3))
    IN walk([x |-> s[1] * 16 + 8, y |-> s[2] * 16 + 8, err |-> delta_x - delta_y])

\* line_of_sight(sx, sy, dx, dy) on the tiles b: the tiles of s and d are cleared and
\* the arena is drawn (the sprite of the topmost of spawn, creation and wizard; corpses
\* are removed, and so are transparent creations, which b does not hold); every fourth
\* pixel of the line must be black.  The sprite of a piece is taken to be lit at each
\* of its 16 x 16 pixels.
line_of_sight(b, s, d) ==
    LET coords == line_coords(s, d)
        tile(p) == <<p[1] \div 16, p[2] \div 16>>
        drawn(t) ==
            /\ t # s /\ t # d
            /\ LET occupants == b[t[2] * GridWidth + t[1] + 1]
               IN occupants.spawn # {} \/ occupants.creation # {} \/ occupants.wizard # {}
    IN \A i \in 1 .. Len(coords) : (i - 1) % 4 = 0 => ~drawn(tile(coords[i]))

\* The arguments are two tiles of the corner; at most one tile holds a piece (a
\* creation of player 1).
InitSight ==
    /\ pc = "call"
    /\ args \in ((0 .. (GridWidth - 1)) \X (0 .. (GridHeight - 1)))
                    \X ((0 .. (GridWidth - 1)) \X (0 .. (GridHeight - 1)))
    /\ \E piece \in 0 .. (GridWidth * GridHeight) :
            board = [k \in 1 .. (GridWidth * GridHeight) |->
                        [spawn |-> {}, corpse |-> {},
                         creation |-> IF k = piece THEN Some(1) ELSE {}, wizard |-> {}]]
    /\ killed = {}
    /\ ret = None
    /\ alignment = 0
    /\ local = <<>>
    /\ NoGame
    /\ IdleConn
    /\ IdleLobby

LineOfSight ==
    /\ pc = "call"
    /\ pc' = "called"
    /\ ret' = line_of_sight(board, args[1], args[2])
    /\ UNCHANGED <<wizards, arena, moves_left, conn, left_to_choose, spells, acting, prompt,
                   tiles, casting, order, turn, result, quit, connVars, lobbyVars, boardVars,
                   args, castVars>>

SpecSight == InitSight /\ [][LineOfSight]_vars

-----------------------------------------------------------------------------
(* Properties *)

\* C1: select_spells asks exactly the alive-and-connected ids; an id leaves the
\* undecided set only by its own ChosenSpell or its own Disconnected; the phase
\* returns to spell resolution only with the undecided set empty; and a ChosenSpell
\* from an id outside the undecided set adds no spell and changes no hand.
C1_SelectSpellsWaitsForAll ==
    [][/\ (pc # "select_spells" /\ pc' = "select_spells") =>
             left_to_choose' =
                 {wizards'[i].id : i \in {j \in 1 .. Len(wizards') :
                                             wizards'[j].alive /\ ~wizards'[j].disconnected}}
       /\ (pc = "select_spells" /\ pc' \in {"select_spells", "do_spell"}) =>
             /\ left_to_choose' \subseteq left_to_choose
             /\ \A i \in left_to_choose \ left_to_choose' :
                   \/ conn[i] = "open" /\ conn'[i] = "closed"
                   \/ \E c \in SpellChoices : SelectChosenSpell(i, c)
             /\ pc' = "do_spell" => left_to_choose' = {}
       /\ \A i \in ConnIds : \A c \in SpellChoices :
             (i \notin left_to_choose /\ SelectChosenSpell(i, c)) =>
                 UNCHANGED <<spells, wizards, left_to_choose, pc>>
      ]_vars

\* select_spells of the first round has returned: one asked player was reported
\* disconnected, every other one has a spell in the list.
C1_Witness ==
    /\ pc = "do_spell"
    /\ turn = 0
    /\ left_to_choose = {}
    /\ spells # <<>>
    /\ \E i \in Ids(wizards) : has_disconnected(wizards, i) /\ conn[i] = "closed"
    /\ \A i \in Ids(wizards) :
          has_disconnected(wizards, i) \/ \E k \in 1 .. Len(spells) : spells[k].id = i

\* C2: every roster player whose Disconnected notification has been consumed is
\* marked disconnected, whether or not the player had already answered.
C2_DisconnectedAlwaysMarked ==
    \A i \in Ids(wizards) : conn[i] = "closed" => has_disconnected(wizards, i)

\* C3: while chosen_tile waits for a player, that player is not marked disconnected;
\* a Disconnected for another roster player marks that player and the wait goes on
\* unchanged; a Disconnected for the awaited player marks it and ends the wait as
\* None (nothing on the board changes, nobody is awaited); and any other step that
\* changes roster or board is the awaited player's ChosenTile.
C3_ChosenTile ==
    [][pc = "chosen_tile" =>
          /\ acting # {}
          /\ ~wizards[Find(wizards, The(acting))].disconnected
          /\ \A d \in Ids(wizards) :
                (conn[d] = "open" /\ conn'[d] = "closed") =>
                    /\ wizards' = [wizards EXCEPT ![Find(wizards, d)].disconnected = TRUE]
                    /\ IF d = The(acting)
                       THEN pc' # "chosen_tile" /\ acting' = {} /\ arena' = arena
                       ELSE pc' = "chosen_tile" /\ UNCHANGED <<arena, acting, prompt, tiles>>
          /\ (conn' = conn /\ pc' # "shutdown" /\ <<wizards, arena>>' # <<wizards, arena>>) =>
                /\ conn[The(acting)] = "open"
                /\ \E c \in TileChoices : TileChosen(c)
      ]_vars

\* chosen_tile is waiting for one player after the Disconnected of another roster
\* player has been applied.
C3_Witness ==
    /\ pc = "chosen_tile"
    /\ \E d \in Ids(wizards) \ acting : has_disconnected(wizards, d) /\ conn[d] = "closed"
    /\ conn[The(acting)] = "open"

\* C4: handling a Disconnected during chosen_tile never ends the session with an
\* error, whichever connection id it names.
C4_DisconnectNeverErrors == pc # "error"

\* C5: a connection task that stopped on a read error, a write failure or a broadcast
\* receive error has put Disconnected { id } on the inbound channel.
C5_FailureNotifies ==
    (task \in {"returned_ok", "returned_err"} /\ cause \in {"read", "write", "broadcast"}) =>
        \E k \in 1 .. Len(inbox) : inbox[k] = [kind |-> "Disconnected", id |-> conn_id]

\* C6: select_spells never waits for a message with nobody left undecided.
C6_SelectSpellsNeverWaitsOnNobody == pc = "select_spells" => left_to_choose # {}

\* C7: when a spell resolution or a movement turn has just ended and exactly one
\* player is alive and connected, game_loop has returned the list of the alive and
\* connected players; otherwise it goes on with the next spell or turn; and once it
\* has returned, nothing but the shutdown happens.
C7_WinEndsTheGame ==
    [][LET Resolved ==
               \/ pc = "do_spell" /\ spells # <<>> /\ pc' \notin {"chosen_tile", "panic"}
               \/ /\ pc = "chosen_tile" /\ prompt = "ChooseTarget"
                  /\ pc' \notin {"chosen_tile", "shutdown", "error"}
           TurnTaken ==
               \/ /\ pc = "turns" /\ order # <<>> /\ wizards[Find(wizards, Head(order))].alive
                  /\ pc' # "chosen_tile"
               \/ /\ pc = "chosen_tile" /\ prompt # "ChooseTarget"
                  /\ pc' \notin {"chosen_tile", "shutdown", "error"}
           Active == {i \in 1 .. Len(wizards') :
                          wizards'[i].alive /\ ~wizards'[i].disconnected}
       IN /\ (Resolved \/ TurnTaken) =>
                IF Cardinality(Active) = 1
                THEN /\ pc' = "results"
                     /\ Len(result') = 1
                     /\ \A i \in Active : result'[1] = wizards'[i].id
                ELSE pc' \in {"do_spell", "turns"}
          /\ pc = "results" => pc' = "shutdown"
      ]_vars

\* game_loop has returned on a win before the last round, with a chosen spell of
\* the round still unresolved.
C7_Witness ==
    /\ pc = "results"
    /\ turn < Len(wizards) * 2 + 15
    /\ spells # <<>>
    /\ Len(result) = 1

\* C8: when the spell of a ChooseTarget wait takes a wizard off the board and exactly
\* one player with a wizard on the board is alive and connected, game_loop has
\* returned exactly that player.
C8_SpellKillEndsTheGame ==
    [][(/\ pc = "chosen_tile" /\ prompt = "ChooseTarget"
        /\ pc' \notin {"shutdown", "error"}
        /\ arena' # arena) =>
           LET Left == {i \in arena' : /\ wizards'[Find(wizards', i)].alive
                                       /\ ~wizards'[Find(wizards', i)].disconnected}
           IN Cardinality(Left) = 1 =>
                  /\ pc' = "results"
                  /\ Range(result') = Left
      ]_vars

\* C9: check_for_winning_condition is true iff exactly one roster player is alive
\* and not disconnected; winners() lists exactly the alive and not disconnected
\* players, each once; that list is what game_loop returns.
C9_WinnersAreTheActive ==
    LET Active == {i \in 1 .. Len(wizards) : wizards[i].alive /\ ~wizards[i].disconnected}
    IN /\ check_for_winning_condition(wizards) <=> Cardinality(Active) = 1
       /\ Len(winners(wizards)) = Cardinality(Active)
       /\ Range(winners(wizards)) = {wizards[i].id : i \in Active}
       /\ pc = "results" => result = winners(wizards)

\* game_loop returned a single winner of a roster that has a dead wizard.
C9_Witness ==
    /\ pc = "results"
    /\ Len(result) = 1
    /\ \E i \in 1 .. Len(wizards) : ~wizards[i].alive

\* C10: the rounds completed never exceed players * 2 + 15; when that many are
\* completed game_loop has returned; and it returns earlier only on a win.
C10_RoundCount ==
    wizards # <<>> =>
        LET players == Cardinality(Ids(wizards))
            Active == {i \in 1 .. Len(wizards) : wizards[i].alive /\ ~wizards[i].disconnected}
        IN /\ turn <= players * 2 + 15
           /\ turn = players * 2 + 15 => pc = "results"
           /\ (pc = "results" /\ turn < players * 2 + 15) => Cardinality(Active) = 1

\* game_loop returned after the last round, with no win.
C10_Witness ==
    /\ pc = "results"
    /\ turn = Cardinality(Ids(wizards)) * 2 + 15
    /\ Len(result) # 1

\* C11: once select_spells has returned, the spells still to be resolved in the round
\* are in strictly ascending player id (so no player has two of them), and the caster
\* whose spell is being resolved has a smaller id than every spell still to come.
C11_SpellsInIdOrder ==
    pc \in {"do_spell", "chosen_tile", "environment", "turns"} =>
        /\ \A k \in 1 .. (Len(spells) - 1) : spells[k].id < spells[k + 1].id
        /\ prompt = "ChooseTarget" =>
               \A k \in 1 .. Len(spells) : The(acting) < spells[k].id

\* A caster is choosing a target while two more spells of the round wait their turn.
C11_Witness ==
    /\ pc = "chosen_tile"
    /\ prompt = "ChooseTarget"
    /\ Len(spells) = 2
    /\ The(acting) = 0

ChoicePrompts ==
    {"ChooseTarget", "ChoosePiece", "MovementRange", "MovementPoints", "EngagedInCombat"}

C13_QuitHasPriority ==
    [][(quit /\ pc \in {"select_spells", "chosen_tile", "results"} /\ conn' = conn)
          => pc' = "shutdown"]_vars

\* C14: with in-protocol inputs only, the task never ends by a panic: find_wizard_mut
\* is never called for an id whose wizard is not on the board.
C14_NoPanic == pc # "panic"

OutOfRange(c) == IF c = {} THEN FALSE ELSE The(c) >= Len(tiles)

\* C15: while chosen_tile waits, a ChosenTile of the awaited player whose index lies
\* outside the offered list is not absorbed: chosen_tile does not go on waiting as if
\* nothing had arrived.
C15_OutOfRangeIsFatal ==
    (pc = "chosen_tile" /\ conn[The(acting)] = "open") =>
        \A c \in TileChoices : OutOfRange(c) => ~ChosenTileAnswer(tiles, c).waits

C17_DisconnectedIsOut ==
    /\ pc = "select_spells" => \A i \in left_to_choose : conn[i] = "open"
    /\ pc = "chosen_tile" => conn[The(acting)] = "open"
    /\ pc = "results" => \A k \in 1 .. Len(result) : conn[result[k]] = "open"

\* C18: lobby_loop has returned the roster exactly when the roster holds at least two
\* players and all of them are ready: it has not returned otherwise, and it is not
\* still in the lobby with such a roster.
C18_StartsExactlyWhenReady ==
    /\ pc = "start" => is_ready(lobby)
    /\ pc = "lobby" => ~is_ready(lobby)

\* C19: the lobby roster never holds more than 8 players, and while it holds 8 a Join
\* from any connection leaves the roster as it is and broadcasts nothing.
C19_RosterCap ==
    /\ Cardinality(lobby) <= MaxLobbyPlayers
    /\ Cardinality(LobbyIds(lobby)) = Cardinality(lobby)
    /\ (pc = "lobby" /\ Cardinality(lobby) = MaxLobbyPlayers) =>
           \A id \in LobbyConnIds : OnJoin(lobby, id) = [players |-> lobby, sent |-> "none"]

\* The roster is full, the ninth connection is not in it, and the last message
\* handled broadcast nothing.
C19_Witness ==
    /\ pc = "lobby"
    /\ Cardinality(lobby) = MaxLobbyPlayers
    /\ MaxLobbyConn - 1 \notin LobbyIds(lobby)
    /\ sent = "none"

\* The owner ids of what stands or lies on tile t.
OwnersOn(t) ==
    {The(t.spawn).id : x \in t.spawn} \cup t.corpse \cup t.creation \cup t.wizard

\* C20: on every board, kill_wizard_and_creations(id) leaves no spawn, corpse, creation
\* or wizard owned by id on any tile and leaves every occupant of another owner as it
\* was; after a kill the board holds nothing of the killed id; and the wizards left on
\* the board are those that were there, less the wizard of id.
C20_KillRemovesExactlyOwned ==
    /\ \A id \in OwnerIds :
           LET after == kill_on_board(board, id)
           IN /\ Len(after) = Len(board)
              /\ \A k \in 1 .. Len(board) :
                     /\ id \notin OwnersOn(after[k])
                     /\ \A f \in {"spawn", "corpse", "creation", "wizard"} :
                            after[k][f] # board[k][f] =>
                                /\ after[k][f] = {}
                                /\ IF f = "spawn" THEN The(board[k][f]).id = id
                                   ELSE board[k][f] = Some(id)
              /\ WizardsOn(after) = kill_wizard_and_creations(WizardsOn(board), id)
    /\ \A id \in killed : \A k \in 1 .. Len(board) : id \notin OwnersOn(board[k])

\* Owner 0 has been killed; a tile still holds a spawn, a corpse, a creation and a
\* wizard of owner 1, and another tile is empty.
C20_Witness ==
    /\ killed = Some(0)
    /\ \E k \in 1 .. Len(board) :
           /\ board[k].spawn # {}
           /\ board[k].corpse = Some(1)
           /\ board[k].creation = Some(1)
           /\ board[k].wizard = Some(1)
    /\ \E k \in 1 .. Len(board) : OwnersOn(board[k]) = {}

\* C21: for every board and every source tile s holding a creation and destination d,
\* move_creation(s, d) leaves s without creation and d with the creation of s; when s
\* held a wizard, d holds that wizard and s none; when s held none, the wizard slot of
\* d is as before; every other tile is as before.  After a move the source holds no
\* creation and the destination holds one.
C21_MoveCreation ==
    /\ \A s, d \in 1 .. Len(board) :
           (s # d /\ board[s].creation # {}) =>
               LET after == move_creation(board, s, d)
               IN /\ after[s].creation = {}
                  /\ after[d].creation = board[s].creation
                  /\ after[s].wizard = {}
                  /\ after[d].wizard = IF board[s].wizard # {} THEN board[s].wizard
                                       ELSE board[d].wizard
                  /\ \A k \in 1 .. Len(board) : k \notin {s, d} => after[k] = board[k]
    /\ args # <<>> => board[args[1]].creation = {} /\ board[args[2]].creation # {}

\* A creation has moved from tile 1 to tile 2, where a wizard stands on it, and tile 3
\* holds a creation and a wizard of the other owner.
C21_Witness ==
    /\ args = <<1, 2>>
    /\ board[2].creation = Some(0)
    /\ board[2].wizard = Some(0)
    /\ board[3].creation = Some(1)
    /\ board[3].wizard = Some(1)

\* C22: after creation_attack by a shadow-wood creation, whatever the target, the
\* outcome of the attack and the number of players left, creation_attack has returned,
\* the shadow-wood creation is on its original tile and the attacked tile does not
\* hold it.
C22_ShadowWoodStaysRooted ==
    (args # <<>> /\ args[1].shadow_wood) =>
        /\ ret = "Ok"
        /\ board[1].creation = Some(0)
        /\ board[2].creation # Some(0)

\* C23: on every board and for every chosen tile d, Disbelieve on a creation that is
\* an illusion sends Disbelieve{success:true} and empties the creation slot of d and
\* nothing else; on any other tile it sends Disbelieve{success:false} and leaves the
\* board as it is.  After a successful Disbelieve the chosen tile holds no creation.
C23_Disbelieve ==
    /\ \A d \in 1 .. Len(board) : \A illusion \in BOOLEAN :
           (illusion => board[d].creation # {}) =>
               LET r == disbelieve(board, d, illusion)
               IN IF illusion
                  THEN /\ r.sent = "Disbelieve{success:true}"
                       /\ r.board = [board EXCEPT ![d].creation = {}]
                  ELSE /\ r.sent = "Disbelieve{success:false}"
                       /\ r.board = board
    /\ ret = "Disbelieve{success:true}" => args[2] /\ board[args[1]].creation = {}
    /\ ret = "Disbelieve{success:false}" => ~args[2]

\* An illusion was disbelieved under the wizard that rode it; the wizard still stands
\* on the tile.
C23_Witness ==
    /\ ret = "Disbelieve{success:true}"
    /\ board[args[1]].wizard # {}
    /\ board[args[1]].creation = {}

\* C24: when the first targeting set of a spell that takes a target is empty, the caster
\* is sent NoPossibleMoves, do_spell has returned, and the world alignment is what it
\* was when do_spell was entered.
C24_EmptyTargetingKeepsAlignment ==
    local.first = "empty" =>
        /\ pc = "done"
        /\ local.sent[Len(local.sent)] = "NoPossibleMoves"
        /\ alignment = local.alignment

\* C25: a step that answers a chosen tile with NoLineOfSight (a spell arm that checks
\* line of sight, or a ranged-combat follow-up) sends the prompt of the same action
\* again and waits for the answer; it makes no cast roll and leaves the arena, the
\* world alignment and the arm's progress as they were.
C25_NoLineOfSightRePrompts ==
    [][(local'.sent # <<>> /\ local'.sent[1] = "NoLineOfSight") =>
            /\ pc \in {"chosen", "ranged"}
            /\ pc' = pc
            /\ local'.sent = <<"NoLineOfSight",
                                IF pc = "ranged" THEN "ChooseRangedCombat" ELSE "ChooseTarget">>
            /\ board' = board
            /\ alignment' = alignment
            /\ local'.rolls = local.rolls
            /\ local'.cast = local.cast
            /\ local'.count = local.count]_vars

\* A Magic Bolt or Lightning whose cast roll was made is prompting again after
\* NoLineOfSight.
C25_Witness ==
    /\ pc = "chosen"
    /\ local.sent = <<"NoLineOfSight", "ChooseTarget">>
    /\ local.rolls = 1
    /\ args[1].kind \in {"MagicBolt", "Lightning"}

\* C26: index 0 of every hand is Disbelieve; while spells are being selected, a choice of
\* an index k > 0 of the hand by a player that is waited for removes exactly the spell
\* at k from that player's hand and leaves every other wizard as it was.
C26_HandsKeepDisbelieve ==
    /\ \A i \in 1 .. Len(wizards) :
            wizards[i].spells # <<>> /\ wizards[i].spells[1] = "Disbelieve"
    /\ pc = "select_spells" =>
            \A id \in left_to_choose : \A k \in 1 .. (Len(get(wizards, id).spells) - 1) :
                LET after == chosen_spell(wizards, arena, id, k)
                    i == Find(wizards, id)
                IN /\ after # {}
                   /\ The(after)[i].spells = RemoveAt(wizards[i].spells, k)
                   /\ \A j \in 1 .. Len(wizards) : j # i => The(after)[j] = wizards[j]

\* C27: Arena::get(x, y) returns the tile at row-major index y * 15 + x when x < 15 and
\* y < 10, and faults for every other pair of u8 coordinates.
C27_GetIsRowMajorOrFaults ==
    pc = "called" =>
        IF args[1] < width /\ args[2] < height
        THEN ret = Some(args[2] * width + args[1])
        ELSE ret = {}

\* C28: cast_chance never returns more than 9, for every base chance and spell ability
\* in 0 .. 9, every world alignment and every spell alignment.
C28_CastChanceAtMostNine ==
    pc = "called" => \A chance \in ret : chance <= 9

\* Base chance 9, lawful spell, world alignment 40, spell ability 9: the chance is 9.
C28_Witness ==
    /\ pc = "called"
    /\ args = <<9, 1, 40, 9>>
    /\ ret = Some(9)

\* C29: for every world alignment in -128 .. 127, cast_chance is
\* min(9, base chance + spell ability + boost), where boost is |world alignment| / 4 if
\* the spell's alignment and the world's are both positive or both negative, else 0.
C29_CastChanceFormula ==
    pc = "called" =>
        LET chance == args[1]
            spell_alignment == args[2]
            world == args[3]
            spell_ability == args[4]
            boost == IF (spell_alignment > 0 /\ world > 0) \/ (spell_alignment < 0 /\ world < 0)
                     THEN (IF world < 0 THEN -world ELSE world) \div 4
                     ELSE 0
            total == chance + spell_ability + boost
        IN ret = Some(IF total < 9 THEN total ELSE 9)

\* C30: line_of_sight(a, b) = line_of_sight(b, a) for every two tiles and every
\* occupancy, and line_of_sight(p, p) holds for every tile p.
C30_LineOfSightSymmetric ==
    pc = "called" =>
        /\ ret = line_of_sight(board, args[2], args[1])
        /\ args[1] = args[2] => ret = TRUE

\* C31: whatever SendMsg a running connection task takes from the broadcast channel,
\* a MessageToId is written by the connection it names and by no other, a
\* MessageToAllExcept by every connection but the one it names, and a MessageToAll by
\* every connection, tagged with the id it carries, or with the connection's own id
\* when it carries none; each of the first two is tagged with the sender it carries.
C31_Routing ==
    args # <<>> =>
        LET m == args[1]
        IN CASE m.kind = "MessageToId" ->
                    ret = (IF conn_id = m.to THEN {[id |-> m.from]} ELSE {})
             [] m.kind = "MessageToAllExcept" ->
                    ret = (IF conn_id = m.from THEN {} ELSE {[id |-> m.from]})
             [] m.kind = "MessageToAll" ->
                    /\ m.msg_id # {} => ret = {[id |-> The(m.msg_id)]}
                    /\ m.msg_id = {} => ret = {[id |-> conn_id]}
             [] OTHER -> ret = {}

C31_Witness ==
    /\ args # <<>>
    /\ args[1].kind = "MessageToAllExcept"
    /\ args[1].from # conn_id
    /\ ret = {[id |-> args[1].from]}
    /\ task = "running"

\* C32: for every roster player, the alive flag is set exactly when a wizard with the
\* player's id stands on the board.
C32_AliveIffOnBoard ==
    \A i \in 1 .. Len(wizards) : wizards[i].alive <=> wizards[i].id \in arena

\* C33: the resolution of a Magic Wood cast always comes to its return, whatever the
\* board and the line of sight, without waiting for an answer.
C33_MagicWoodReturns ==
    (pc = "do_spell" /\ args[1].kind = "MagicWood") ~> (pc = "done")

\* C34: server_loop has returned only if the Shutdown message was forwarded; until
\* then it goes on accepting connections and forwarding messages, whoever is
\* connected.
C34_ServerLoopRunsUntilShutdown ==
    pc \in {"returned_ok", "returned_err"} => (sent # <<>> /\ sent[Len(sent)] = "Shutdown")

\* C35: when wizard_attack has put the attacking wizard on the tile it attacked, a
\* MoveWizard event was sent to all clients.
C35_RelocationIsAnnounced ==
    (Len(args) = 2 /\ board[2].wizard = Some(0)) =>
        \E k \in 1 .. Len(ret) : ret[k] = "MoveWizard"

\* C36: when the ranged attack of a wizard has succeeded on a magic-wood tree with a
\* wizard in it, the player marked dead is the one whose wizard stood in the tree, and
\* that wizard is off the board.
C36_RangedAttackKillsTheSheltered ==
    (/\ Len(args) = 3 /\ args[2] = "wizard"
     /\ args[1].success /\ args[1].magic_wood
     /\ args[3].spawn = {} /\ args[3].wizard # {}) =>
        /\ killed = args[3].wizard
        /\ \A k \in 1 .. Len(board) : board[k].wizard # args[3].wizard

\* C37: a tile that holds a Fire spawn holds no creation, no wizard and no corpse.
C37_FireTilesAreBare ==
    \A k \in 1 .. Len(board) :
        (board[k].spawn # {} /\ The(board[k].spawn).kind = "Fire") =>
            board[k].creation = {} /\ board[k].wizard = {} /\ board[k].corpse = {}

\* Fire has spread to a tile on which a creation stood over a corpse.
C37_Witness ==
    /\ Len(args) = 2 /\ args[1] = "do_fire"
    /\ ret.creation # {} /\ ret.corpse # {}
    /\ board[args[2]].spawn # {} /\ The(board[args[2]].spawn).kind = "Fire"

\* C38: for every player whose wizard is on the board, the number_of_spells counter of
\* that wizard equals the length of the player's hand, and has not wrapped below zero.
C38_CounterIsHandLength ==
    \A i \in 1 .. Len(wizards) :
        wizards[i].id \in arena =>
            /\ wizards[i].number_of_spells = Len(wizards[i].spells)
            /\ wizards[i].number_of_spells <= 20

\* One hand has grown to 20 by gifts, the other is down to Disbelieve.
C38_Witness ==
    /\ Len(wizards) = 2
    /\ Len(wizards[1].spells) = 20 /\ wizards[1].number_of_spells = 20
    /\ Len(wizards[2].spells) = 1 /\ wizards[2].number_of_spells = 1

\* C40: a combustible shelter vanishes for exactly one of the ten values of its 0-9
\* draw, and a wizard in magic wood with room in the hand receives a spell for exactly
\* one of the ten values of its draw.
C40_OneInTen ==
    /\ Cardinality({d \in 0 .. 9 : should_disappear(d)}) = 1
    /\ \A i \in 1 .. Len(wizards) :
           Len(wizards[i].spells) < 20 =>
               Cardinality({d \in 0 .. 9 : do_magic_wood(wizards[i], d) # wizards[i]}) = 1

\* C39: the tiles offered for Disbelieve include the tile of an attackable creation of
\* another player wherever it is on the board, the caster's own tile excepted.
C39_DisbelieveReachesTheBoard ==
    (pc = "called" /\ <<args[1], args[2]>> # <<args[3], args[4]>>) => ret = TRUE

====
